---------------------------- MODULE Spec2Model ----------------------------
(***************************************************************************)
(* A model of the agentic tool-execution loop of the Telegram bot          *)
(* (src/telegram.js: processWithClaude, handleUserText) together with the  *)
(* reasoning service and the tool handlers it talks to.                    *)
(*                                                                         *)
(* Text that the code inspects (tool inputs, model replies) is a sequence  *)
(* of one-character strings, so that trim(), split(), join() and the       *)
(* regular expressions of the source are computed, not assumed.            *)
(***************************************************************************)
EXTENDS Integers, Sequences, FiniteSets, TLC

(***************************************************************************)
(* Bounds of the model.                                                    *)
(***************************************************************************)
\* user requests handled on the conversation
MaxRequests == 2
\* tool_use blocks in one response of the reasoning service
MaxToolUses == 2
\* tool_use blocks the reasoning service emits over a whole behaviour
MaxIds == 3
\* largest configured value of maxAgentIterations
MaxCfgIterations == 2
\* create calls the reasoning service rejects over a whole behaviour
MaxRejections == 2

(***************************************************************************)
(* Program constants.                                                      *)
(***************************************************************************)
MAX_HISTORY_MESSAGES == 40
DefaultAgentIterations == 25
AgentIterationsCeiling == 100

(***************************************************************************)
(* Characters and strings.                                                 *)
(***************************************************************************)
UpperCase == <<"A","B","C","D","E","F","G","H","I","J","K","L","M",
               "N","O","P","Q","R","S","T","U","V","W","X","Y","Z">>
LowerCase == <<"a","b","c","d","e","f","g","h","i","j","k","l","m",
               "n","o","p","q","r","s","t","u","v","w","x","y","z">>
Digits == {"0","1","2","3","4","5","6","7","8","9"}

\* \s of a JavaScript regular expression, and what String.trim() removes
IsSpace(c) == c \in {" ", "\t", "\n", "\r"}

\* \w of a JavaScript regular expression
IsWordChar(c) ==
    \/ \E i \in 1..26 : c = UpperCase[i] \/ c = LowerCase[i]
    \/ c \in Digits
    \/ c = "_"

ToLowerChar(c) ==
    IF \E i \in 1..26 : c = UpperCase[i]
    THEN LowerCase[CHOOSE i \in 1..26 : c = UpperCase[i]]
    ELSE c

\* the i flag of a regular expression: compare on the lower-cased text
ToLower(s) == [i \in 1..Len(s) |-> ToLowerChar(s[i])]

\* String.prototype.trim
RECURSIVE TrimLeft(_)
TrimLeft(s) == IF s # <<>> /\ IsSpace(Head(s)) THEN TrimLeft(Tail(s)) ELSE s

RECURSIVE TrimRight(_)
TrimRight(s) ==
    IF s # <<>> /\ IsSpace(s[Len(s)]) THEN TrimRight(SubSeq(s, 1, Len(s) - 1)) ELSE s

Trim(s) == TrimRight(TrimLeft(s))

\* the literal lit occurs in s at index i, letter case ignored
LitAt(s, i, lit) ==
    /\ i >= 1
    /\ i + Len(lit) - 1 <= Len(s)
    /\ \A k \in 1..Len(lit) : ToLowerChar(s[i + k - 1]) = lit[k]

\* \b between s[i-1] and s[i] (i in 1..Len(s)+1)
WordBoundary(s, i) ==
    LET before == i > 1 /\ IsWordChar(s[i - 1])
        after == i <= Len(s) /\ IsWordChar(s[i])
    IN before # after

\* String.prototype.split("\n")
RECURSIVE SplitLines(_)
SplitLines(s) ==
    IF \E i \in 1..Len(s) : s[i] = "\n"
    THEN LET i == CHOOSE j \in 1..Len(s) :
                    s[j] = "\n" /\ \A k \in 1..(j - 1) : s[k] # "\n"
         IN <<SubSeq(s, 1, i - 1)>> \o SplitLines(SubSeq(s, i + 1, Len(s)))
    ELSE <<s>>

\* Array.prototype.join("\n")
RECURSIVE JoinLines(_)
JoinLines(ls) ==
    IF ls = <<>> THEN <<>>
    ELSE IF Len(ls) = 1 THEN ls[1]
    ELSE ls[1] \o <<"\n">> \o JoinLines(Tail(ls))

(***************************************************************************)
(* String literals of the source.                                          *)
(***************************************************************************)
LitBrowse == <<"b","r","o","w","s","e",":">>
LitExec == <<"e","x","e","c",":">>
LitChrome == <<"c","h","r","o","m","e">>
LitDotExe == <<".","e","x","e">>
LitHttp == <<"h","t","t","p">>
LitColonSlashes == <<":","/","/">>
LitStart == <<"s","t","a","r","t">>
LitContinue == <<"c","o","n","t","i","n","u","e">>
LitOr == <<"o","r">>
LitStopQ == <<"s","t","o","p","?">>
LitWouldYouLikeMeTo == <<"w","o","u","l","d"," ","y","o","u"," ","l","i","k","e"," ","m","e"," ","t","o"," ">>
LitTake == <<"t","a","k","e">>
LitProceed == <<"p","r","o","c","e","e","d">>
TaskCompleted == <<"T","a","s","k"," ","c","o","m","p","l","e","t","e","d",".">>
BrowserTaskCompleted == <<"B","r","o","w","s","e","r"," ","t","a","s","k"," ","c","o","m","p","l","e","t","e","d",".">>
ErrorPrefix == <<"E","r","r","o","r",":"," ">>

Min(a, b) == IF a < b THEN a ELSE b
Max(a, b) == IF a > b THEN a ELSE b

(***************************************************************************)
(* Regular expressions of the orchestrator.                                *)
(***************************************************************************)
\* the first index >= i of s that holds no white space (Len(s)+1 if none)
RECURSIVE SkipSpaces(_, _)
SkipSpaces(s, i) == IF i <= Len(s) /\ IsSpace(s[i]) THEN SkipSpaces(s, i + 1) ELSE i

\* /\bchrome(\.exe)?\b/i
MatchesChrome(c) ==
    \E i \in 1..Len(c) :
        /\ WordBoundary(c, i)
        /\ LitAt(c, i, LitChrome)
        /\ \/ WordBoundary(c, i + 6)
           \/ LitAt(c, i + 6, LitDotExe) /\ WordBoundary(c, i + 10)

\* /https?:\/\/\S+/i
MatchesUrl(c) ==
    \E i \in 1..Len(c) :
        /\ LitAt(c, i, LitHttp)
        /\ \E j \in {i + 4, i + 5} :
              /\ j = i + 5 => LitAt(c, i + 4, <<"s">>)
              /\ LitAt(c, j, LitColonSlashes)
              /\ j + 3 <= Len(c)
              /\ ~IsSpace(c[j + 3])

\* /^start\b/i
MatchesStart(c) == LitAt(c, 1, LitStart) /\ WordBoundary(c, 6)

\* /continue\s+or\s+stop\?/i
MatchesContinueOrStop(line) ==
    \E i \in 1..Len(line) :
        /\ LitAt(line, i, LitContinue)
        /\ LET j == SkipSpaces(line, i + 8)
           IN /\ j > i + 8
              /\ LitAt(line, j, LitOr)
              /\ LET k == SkipSpaces(line, j + 2)
                 IN k > j + 2 /\ LitAt(line, k, LitStopQ)

\* /would you like me to (take|continue|proceed)/i
MatchesWouldYouLike(line) ==
    \E i \in 1..Len(line) :
        /\ LitAt(line, i, LitWouldYouLikeMeTo)
        /\ \E w \in {LitTake, LitContinue, LitProceed} : LitAt(line, i + Len(LitWouldYouLikeMeTo), w)

(***************************************************************************)
(* Configuration (src/telegram.js, startTelegramBot).                      *)
(***************************************************************************)
\* Math.max(1, Math.min(100, Math.floor(Number(v)) || 25)) for an integer v
ClampAgentIterations(v) ==
    Max(1, Min(AgentIterationsCeiling, IF v = 0 THEN DefaultAgentIterations ELSE v))

(***************************************************************************)
(* Messages.  A message is [role, content]; content is a sequence of       *)
(* blocks: [type |-> "text", text], [type |-> "tool_use", id, name,        *)
(* input] or [type |-> "tool_result", tool_use_id, content].  A user text  *)
(* is kept as one text block.  The payload of a tool result stands for     *)
(* JSON.stringify(toolResult): the record it serialises.                   *)
(***************************************************************************)
TextBlock(t) == [type |-> "text", text |-> t]
UserMessage(t) == [role |-> "user", content |-> <<TextBlock(t)>>]

\* a trim that keeps the oldest messages
trimHistoryOldest(messages) ==
    SubSeq(messages, 1, Min(MAX_HISTORY_MESSAGES, Len(messages)))

\* trimHistory
trimHistory(messages) ==
    IF Len(messages) <= MAX_HISTORY_MESSAGES THEN messages
    ELSE SubSeq(messages, Len(messages) - MAX_HISTORY_MESSAGES + 1, Len(messages))

\* (response.content || []).filter(block => block.type === "tool_use")
ToolUsesOf(content) == SelectSeq(content, LAMBDA b : b.type = "tool_use")

\* the fingerprint of a call, or NullFp (null in the source; the empty
\* string, which the source's truth tests treat like null)
NullFp == <<>>

fingerprintBrowserAction(toolUse) ==
    IF toolUse.name = "browse_website"
    THEN LET u == Trim(toolUse.input.url)
             t == Trim(toolUse.input.task)
         IN IF u = <<>> THEN NullFp ELSE LitBrowse \o u \o <<"|">> \o t
    ELSE IF toolUse.name = "execute_command"
    THEN LET c == Trim(toolUse.input.command)
             isChrome == MatchesChrome(c)
             hasUrl == MatchesUrl(c)
             isStartUrl == MatchesStart(c) /\ hasUrl
             isChromeLaunch == isChrome /\ (hasUrl \/ MatchesStart(c))
         IN IF c = <<>> THEN NullFp
            ELSE IF ~isStartUrl /\ ~isChromeLaunch THEN NullFp
            ELSE LitExec \o c
    ELSE NullFp

\* response.content.filter(text).map(text).join("\n")
TextContentOf(content) ==
    LET texts == SelectSeq(content, LAMBDA b : b.type = "text")
    IN JoinLines([i \in 1..Len(texts) |-> texts[i].text])

\* a final text that passes through the first line filter only
StripContinueOrStopOnly(text) ==
    Trim(JoinLines(SelectSeq(SplitLines(text), LAMBDA l : ~MatchesContinueOrStop(l))))

\* the two line filters, the join and the trim of the final text
StripContinuePrompts(text) ==
    Trim(JoinLines(
        SelectSeq(SelectSeq(SplitLines(text), LAMBDA l : ~MatchesContinueOrStop(l)),
                  LAMBDA l : ~MatchesWouldYouLike(l))))

\* textContent || "Task completed."
FinalReplyText(content) ==
    LET t == StripContinuePrompts(TextContentOf(content))
    IN IF t = <<>> THEN TaskCompleted ELSE t

(***************************************************************************)
(* The environment's inputs: what the user types, what the reasoning       *)
(* service answers, and how a tool handler ends.                           *)
(***************************************************************************)
UserTexts == {<<"g","o">>}
TextOk == <<"o","k">>
TextContinueOrStop == <<"C","o","n","t","i","n","u","e"," ","o","r"," ","s","t","o","p","?">>
ModelTexts == {TextOk, TextContinueOrStop}

UrlA == <<"h","t","t","p",":","/","/","a">>
CmdStartUrl == <<"s","t","a","r","t"," ","h","t","t","p",":","/","/","a">>

NoInput == [url |-> <<>>, task |-> <<>>, command |-> <<>>]
ToolChoices ==
    { [name |-> "browse_website", input |-> [NoInput EXCEPT !.url = UrlA]],
      [name |-> "execute_command", input |-> [NoInput EXCEPT !.command = CmdStartUrl]],
      [name |-> "take_screenshot", input |-> NoInput],
      [name |-> "read_file", input |-> NoInput] }

\* the tool_use blocks of one response: calls picks the tools, first is the
\* id of the first block (the service never repeats an id)
ToolUseBlocks(calls, first) ==
    [i \in 1..Len(calls) |->
        [type |-> "tool_use", id |-> first + i - 1,
         name |-> calls[i].name, input |-> calls[i].input]]

EndResponses ==
    { [stop_reason |-> "end_turn", content |-> c] :
        c \in { <<TextBlock(t)>> : t \in ModelTexts } }

\* a tool-use response carries a text block and at least one tool_use block
ToolUseResponses(first) ==
    { [stop_reason |-> "tool_use",
       content |-> <<TextBlock(TextOk)>> \o ToolUseBlocks(calls, first)] :
        calls \in UNION { [1..n -> ToolChoices] :
                            n \in 1..Min(MaxToolUses, MaxIds - first + 1) } }

(***************************************************************************)
(* Tool handlers (src/utils.js createTools, src/browser.js).  A handler    *)
(* ends "ok", "failed" (an envelope with success false) or "thrown" (a     *)
(* rejection that escapes it).                                             *)
(***************************************************************************)
RegisteredTools ==
    {"execute_command", "take_screenshot", "capture_webcam_photo",
     "browse_website", "run_healer"}

\* isHttpUrl: new URL(url) strips the surrounding white space, lower-cases
\* the scheme, skips the slashes after it and wants a host, in which no
\* white space and none of < > ^ | may stand
UrlHostStart(u, i) ==
    IF \E k \in i..Len(u) : u[k] \notin {"/", "\\"}
    THEN CHOOSE k \in i..Len(u) :
            u[k] \notin {"/", "\\"} /\ \A j \in i..(k - 1) : u[j] \in {"/", "\\"}
    ELSE Len(u) + 1
UrlHostEnd(u, i) ==
    IF \E k \in i..Len(u) : u[k] \in {"/", "\\", "?", "#"}
    THEN (CHOOSE k \in i..Len(u) :
            /\ u[k] \in {"/", "\\", "?", "#"}
            /\ \A j \in i..(k - 1) : u[j] \notin {"/", "\\", "?", "#"}) - 1
    ELSE Len(u)
\* the test that lets every text through
AnyUrl(url) == TRUE

isHttpUrl(url) ==
    LET u == Trim(url)
        schemeEnd == IF LitAt(u, 1, LitHttp \o <<":">>) THEN 5
                     ELSE IF LitAt(u, 1, LitHttp \o <<"s", ":">>) THEN 6
                     ELSE 0
        first == UrlHostStart(u, schemeEnd + 1)
        last == UrlHostEnd(u, first)
    IN /\ schemeEnd > 0
       /\ first <= last
       /\ \A k \in first..last : ~IsSpace(u[k]) /\ u[k] \notin {"<", ">", "^", "|"}

\* how a call of the handler of tool `name` can end
HandlerOutcomes(name, input) ==
    CASE name = "execute_command" -> {"ok", "failed"}
      [] name = "take_screenshot" -> {"ok", "failed", "thrown"}
      [] name = "capture_webcam_photo" -> {"ok", "failed", "thrown"}
      [] name = "browse_website" ->
            IF input.url = <<>> \/ ~isHttpUrl(input.url) THEN {"failed"}
            ELSE {"ok", "failed"}
      [] name = "run_healer" -> {"ok", "failed"}
      [] OTHER -> {"failed"}

\* the browser bridge process is started by browseWebsite for a valid URL
StartsBridge(name, input) ==
    name = "browse_website" /\ input.url # <<>> /\ isHttpUrl(input.url)

\* the result envelope: success, error, and the orchestrator's own fields
Envelope(success, error) ==
    [success |-> success, deferred |-> FALSE, deduped |-> FALSE,
     error |-> error, fingerprint |-> <<>>]

\* runTool: the registry's lookup; outcome is how the handler ends
runTool(name, input, outcome) ==
    IF name \in RegisteredTools
    THEN Envelope(outcome = "ok", IF outcome = "ok" THEN <<>> ELSE <<"failed">>)
    ELSE Envelope(FALSE, <<"Unknown tool: ", name>>)

(***************************************************************************)
(* The orchestrator's own tool results (src/telegram.js 293-342).          *)
(***************************************************************************)
DeferredResult ==
    [success |-> FALSE, deferred |-> TRUE, deduped |-> FALSE,
     error |-> <<"Deferred by step-by-step mode. The agent should continue in a follow-up step.">>,
     fingerprint |-> <<>>]

DedupedResult(fp) ==
    [success |-> TRUE, deferred |-> FALSE, deduped |-> TRUE,
     error |-> <<>>, fingerprint |-> fp]

\* a duplicate test that never finds a duplicate
IsDuplicateActionNever(fp, executed) == FALSE

\* fp && executedBrowserActions.has(fp)
IsDuplicateAction(fp, executed) == fp # NullFp /\ fp \in executed

\* a set that remembers a fingerprinted call whether it succeeded or not
RememberActionAlways(executed, fp, toolResult) ==
    IF fp # NullFp THEN executed \cup {fp} ELSE executed

\* if (fp && toolResult && toolResult.success) executedBrowserActions.add(fp)
RememberAction(executed, fp, toolResult) ==
    IF fp # NullFp /\ toolResult.success THEN executed \cup {fp} ELSE executed

\* a cap test that is off by one
ExceedsIterationCapEarly(iterations, cap) == iterations >= cap

\* if (iterations > MAX_AGENT_ITERATIONS) break
ExceedsIterationCap(iterations, cap) == iterations > cap

\* an unknown-tool branch that reports success
UnknownToolResultAsSuccess(name) == Envelope(TRUE, <<>>)

\* toolResult = {success: false, error: `Unknown tool: ${toolUse.name}`}
UnknownToolResult(name) == Envelope(FALSE, <<"Unknown tool: ", name>>)

\* a loop that records the newest result first
PushToolResultFront(blocks, toolUse, toolResult) ==
    <<[type |-> "tool_result", tool_use_id |-> toolUse.id,
       content |-> toolResult]>> \o blocks

\* a loop that answers only the calls it did not defer
PushToolResultUnlessDeferred(blocks, toolUse, toolResult) ==
    IF toolResult.deferred THEN blocks
    ELSE Append(blocks, [type |-> "tool_result", tool_use_id |-> toolUse.id,
                         content |-> toolResult])

\* toolResultsBlocks.push({type, tool_use_id, content})
PushToolResult(blocks, toolUse, toolResult) ==
    Append(blocks, [type |-> "tool_result", tool_use_id |-> toolUse.id,
                    content |-> toolResult])

\* a step-by-step test that lets a second call through
ShouldExecuteUpToTwo(stepConfirm, executedThisResponse) ==
    ~(stepConfirm /\ executedThisResponse >= 2)

\* a loop that ignores step-by-step mode
ShouldExecuteAlways(stepConfirm, executedThisResponse) == TRUE

\* const shouldExecute = !(stepConfirm && executedThisResponse >= 1)
ShouldExecute(stepConfirm, executedThisResponse) ==
    ~(stepConfirm /\ executedThisResponse >= 1)

\* the parameters of anthropic.messages.create: the messages and whether
\* the thinking option is set
CreateParams(msgs, thinking) == [messages |-> msgs, thinking |-> thinking]

\* a fallback that keeps the thinking option
FallbackParamsWithThinking(msgs) == CreateParams(msgs, TRUE)

\* the request the catch blocks re-issue: createParamsBase / nextParams
\* as they are, without the thinking option
FallbackParams(msgs) == CreateParams(msgs, FALSE)

ApiErrorMessage == <<"a","p","i"," ","e","r","r","o","r">>
HandlerErrorMessage == <<"h","a","n","d","l","e","r"," ","f","a","u","l","t">>

(***************************************************************************)
(* State.                                                                  *)
(***************************************************************************)
VARIABLES
    cfg,                     \* loadConfig(): the toggles read at start-up
    chatHistory,             \* chatHistory.get(chatId) (<<>> when unset)
    replyText,               \* the text last handed to sendLongMessage
    pc,                      \* where the request in progress stands
    prior,                   \* handleUserText: the history read at its start
    messages,                \* processWithClaude: its messages argument
    convo,                   \* processWithClaude: the working copy
    request,                 \* the create call in flight
    response,                \* the last response of the reasoning service
    iterations,
    executedBrowserActions,
    toolIndex,               \* position of the for loop over toolUses
    toolResultsBlocks,
    executedThisResponse,
    stopAfterBrowseSuccess,
    requests,                \* requests started so far
    nextId,                  \* the id of the next tool_use block
    rejections,              \* create calls rejected so far
    attempts,                \* the create calls issued for the current request/resubmission
    callLog,                 \* the tool calls handled in this run, in order
    rounds,                  \* tool-execution rounds entered in this run
    onlyToolUse,             \* every answer of this run was a tool-use response
    fellBack,                \* a create call of this run was re-issued
    outcome                  \* how the last run ended

\* The session store shared by overlapping requests (src/telegram.js
\* chatHistory, handleUserText) and the healer flag (src/utils.js).
VARIABLES
    chatHistoryMap,          \* chatHistory: chatId -> the array stored (a reference)
    arrays,                  \* the message arrays of the heap, by reference
    handlers,                \* the invocations of handleUserText
    HEALER_RAN_THIS_PROCESS, \* the record {ran}
    healerSpawns,            \* heal.ps1 processes spawned so far
    writeOrder               \* the invocations that called chatHistory.set, in order

\* One call of executeCommand (src/utils.js).
VARIABLES
    cmdCall,                 \* the arguments of the call
    cmdResult                \* what the call returned and whether it spawned

orchestratorVars ==
    <<cfg, chatHistory, replyText, pc, prior, messages, convo, request,
      response, iterations, executedBrowserActions, toolIndex,
      toolResultsBlocks, executedThisResponse, stopAfterBrowseSuccess,
      requests, nextId, rejections, attempts, callLog, rounds, onlyToolUse,
      fellBack, outcome>>

sessionVars ==
    <<chatHistoryMap, arrays, handlers, HEALER_RAN_THIS_PROCESS, healerSpawns,
      writeOrder>>

commandVars == <<cmdCall, cmdResult>>

\* The end of processWithClaude (src/telegram.js 374-397): from the last
\* response to the reply text.
VARIABLES
    finalContent,            \* response.content of the last response
    finalReply               \* the replyText returned

finalVars == <<finalContent, finalReply>>

\* One call of safeSendMessage, safeSendPhoto or safeSendDocument
\* (src/utils.js createTelegramHelpers, withRetries).
VARIABLES
    sendPc,                  \* "idle", "calling", "sleeping", "done"
    sendKind,                \* which helper was called
    sendAttempt,             \* withRetries: attempt
    sendLog,                 \* how each call of fn ended, in order
    sendDelay,               \* the delay of the sleep in progress (ms)
    sendResult               \* what the helper returned

sendVars == <<sendPc, sendKind, sendAttempt, sendLog, sendDelay, sendResult>>

\* One call of browseWebsite (src/browser.js) and what the orchestrator
\* does with its result (src/telegram.js 323-332).
VARIABLES
    browsePc,                \* where the call stands
    browseCall,              \* its url, and the environment it runs in
    browseStarts,            \* the starts of the bridge process, in order
    browseEnsure,            \* what ensureBrowserUseReady did, "none" before
    browseReturn,            \* the envelope returned
    browseStop               \* the orchestrator's stopAfterBrowseSuccess

browseVars ==
    <<browsePc, browseCall, browseStarts, browseEnsure, browseReturn, browseStop>>

\* the message handler of src/telegram.js 475-551 and the list it admits
VARIABLES
    authEnv,                 \* AUTHORIZED_USER_IDS and AUTHORIZED_USER_ID
    authList,                \* authorizedUserIds, computed at start
    authLog                  \* the messages handled: sender, kind, reply, effects

authVars == <<authEnv, authList, authLog>>

\* one call of spawnWithStdin (src/utils.js 6-46)
VARIABLES
    spPromise,               \* the promise returned: pending or settled
    spStdout,                \* the captured standard output
    spStderr,                \* the captured standard error
    spFinished,              \* the flag finished
    spTimer,                 \* killTimer: armed, cleared, fired, or never set
    spEvents,                \* the events handled, in order
    spKills,                 \* the number of child.kill() calls
    spOpen                   \* the child can still emit events

spawnVars ==
    <<spPromise, spStdout, spStderr, spFinished, spTimer, spEvents, spKills, spOpen>>

\* the invocations of runHealer in one process (src/utils.js 1650-1699)
VARIABLES
    hlFlag,                  \* HEALER_RAN_THIS_PROCESS
    hlCalls,                 \* the invocations, in the order they were made
    hlSpawns                 \* heal.ps1 processes spawned so far

healerVars == <<hlFlag, hlCalls, hlSpawns>>

\* the iteration cap read at start-up (src/telegram.js 40)
VARIABLES
    capSetting,              \* maxAgentIterations in config.json
    capValue                 \* MAX_AGENT_ITERATIONS, once computed

capVars == <<capSetting, capValue>>

\* one call of withRetries (src/utils.js 85-98)
VARIABLES
    rtOptions,               \* retries, baseDelayMs, maxDelayMs
    rtPc,                    \* "calling", "sleeping", "returned", "threw"
    rtAttempt,               \* attempt
    rtCalls,                 \* how each call of fn ended, in order
    rtDelays,                \* the delays slept, in order
    rtThrown                 \* the error rethrown

retryVars == <<rtOptions, rtPc, rtAttempt, rtCalls, rtDelays, rtThrown>>

\* the parts of the program that are specified one at a time
unitVars ==
    <<finalVars, sendVars, browseVars, authVars, spawnVars, healerVars, capVars,
      retryVars>>
finalOthers ==
    <<sendVars, browseVars, authVars, spawnVars, healerVars, capVars,
      retryVars>>
sendOthers ==
    <<finalVars, browseVars, authVars, spawnVars, healerVars, capVars,
      retryVars>>
browseOthers ==
    <<finalVars, sendVars, authVars, spawnVars, healerVars, capVars,
      retryVars>>
authOthers ==
    <<finalVars, sendVars, browseVars, spawnVars, healerVars, capVars,
      retryVars>>
spawnOthers ==
    <<finalVars, sendVars, browseVars, authVars, healerVars, capVars,
      retryVars>>
healerOthers ==
    <<finalVars, sendVars, browseVars, authVars, spawnVars, capVars, retryVars>>
capOthers ==
    <<finalVars, sendVars, browseVars, authVars, spawnVars, healerVars, retryVars>>
retryOthers ==
    <<finalVars, sendVars, browseVars, authVars, spawnVars, healerVars, capVars>>

vars == <<orchestratorVars, sessionVars, commandVars, unitVars>>

\* the parts of the state a specification does not use
SessionsUnused ==
    /\ chatHistoryMap = <<>>
    /\ arrays = <<>>
    /\ handlers = <<>>
    /\ HEALER_RAN_THIS_PROCESS = [ran |-> FALSE]
    /\ healerSpawns = 0
    /\ writeOrder = <<>>

FinalUnused == finalContent = <<>> /\ finalReply = <<>>

SendUnused ==
    /\ sendPc = "idle"
    /\ sendKind = "none"
    /\ sendAttempt = 0
    /\ sendLog = <<>>
    /\ sendDelay = 0
    /\ sendResult = "none"

BrowseUnused ==
    /\ browsePc = "idle"
    /\ browseCall = <<>>
    /\ browseStarts = <<>>
    /\ browseEnsure = "none"
    /\ browseReturn = <<>>
    /\ browseStop = FALSE

AuthUnused == authEnv = <<>> /\ authList = <<>> /\ authLog = <<>>

SpawnUnused ==
    /\ spPromise = <<>>
    /\ spStdout = <<>>
    /\ spStderr = <<>>
    /\ spFinished = FALSE
    /\ spTimer = "unset"
    /\ spEvents = <<>>
    /\ spKills = 0
    /\ spOpen = FALSE

HealerUnused == hlFlag = [ran |-> FALSE] /\ hlCalls = <<>> /\ hlSpawns = 0

CapUnused == capSetting = "unset" /\ capValue = <<>>

RetryUnused ==
    /\ rtOptions = <<>>
    /\ rtPc = "idle"
    /\ rtAttempt = 0
    /\ rtCalls = <<>>
    /\ rtDelays = <<>>
    /\ rtThrown = <<>>

LaterUnitsUnused == HealerUnused /\ CapUnused /\ RetryUnused
UnitsUnused ==
    /\ FinalUnused /\ SendUnused /\ BrowseUnused /\ AuthUnused /\ SpawnUnused
    /\ LaterUnitsUnused
FinalOthersUnused ==
    SendUnused /\ BrowseUnused /\ AuthUnused /\ SpawnUnused /\ LaterUnitsUnused
SendOthersUnused ==
    FinalUnused /\ BrowseUnused /\ AuthUnused /\ SpawnUnused /\ LaterUnitsUnused
BrowseOthersUnused ==
    FinalUnused /\ SendUnused /\ AuthUnused /\ SpawnUnused /\ LaterUnitsUnused
AuthOthersUnused ==
    FinalUnused /\ SendUnused /\ BrowseUnused /\ SpawnUnused /\ LaterUnitsUnused
SpawnOthersUnused ==
    FinalUnused /\ SendUnused /\ BrowseUnused /\ AuthUnused /\ LaterUnitsUnused
HealerOthersUnused ==
    /\ FinalUnused /\ SendUnused /\ BrowseUnused /\ AuthUnused /\ SpawnUnused
    /\ CapUnused /\ RetryUnused
CapOthersUnused ==
    /\ FinalUnused /\ SendUnused /\ BrowseUnused /\ AuthUnused /\ SpawnUnused
    /\ HealerUnused /\ RetryUnused
RetryOthersUnused ==
    /\ FinalUnused /\ SendUnused /\ BrowseUnused /\ AuthUnused /\ SpawnUnused
    /\ HealerUnused /\ CapUnused

CommandUnused ==
    /\ cmdCall = <<>>
    /\ cmdResult = <<>>

STEP_CONFIRM == cfg.stepConfirm # FALSE
DEEP_THINKING == cfg.deepThinking = TRUE
STOP_AFTER_SUCCESSFUL_BROWSE == cfg.stopAfterSuccessfulBrowse # FALSE
MAX_AGENT_ITERATIONS == ClampAgentIterations(cfg.maxAgentIterations)

NoResponse == [stop_reason |-> "none", content |-> <<>>]
NoRequest == CreateParams(<<>>, FALSE)

Awaiting == {"awaitFirst", "awaitFirstFallback", "awaitNext", "awaitNextFallback"}

Init ==
    /\ cfg \in [stepConfirm : BOOLEAN, deepThinking : BOOLEAN,
                stopAfterSuccessfulBrowse : BOOLEAN,
                maxAgentIterations : 1..MaxCfgIterations]
    /\ chatHistory = <<>>
    /\ replyText = <<>>
    /\ pc = "idle"
    /\ prior = <<>>
    /\ messages = <<>>
    /\ convo = <<>>
    /\ request = NoRequest
    /\ response = NoResponse
    /\ iterations = 0
    /\ executedBrowserActions = {}
    /\ toolIndex = 0
    /\ toolResultsBlocks = <<>>
    /\ executedThisResponse = 0
    /\ stopAfterBrowseSuccess = FALSE
    /\ requests = 0
    /\ nextId = 1
    /\ rejections = 0
    /\ attempts = <<>>
    /\ callLog = <<>>
    /\ rounds = 0
    /\ onlyToolUse = TRUE
    /\ fellBack = FALSE
    /\ outcome = "none"
    /\ SessionsUnused
    /\ CommandUnused
    /\ UnitsUnused

(***************************************************************************)
(* handleUserText and processWithClaude.  The only caller of               *)
(* processWithClaude is handleUserText, always with allowTools true.       *)
(***************************************************************************)
AssistantMessage(content) == [role |-> "assistant", content |-> content]
\* a user message that leaves out the results of deferred calls
ToolResultsMessageOfExecuted(blocks) ==
    [role |-> "user", content |-> SelectSeq(blocks, LAMBDA b : ~b.content.deferred)]

\* { role: "user", content: toolResultsBlocks }
ToolResultsMessage(blocks) == [role |-> "user", content |-> blocks]

\* processWithClaude returns {replyText, updatedMessages}; handleUserText
\* stores trimHistory(updatedMessages) and sends the reply
Return(reply, updatedMessages, how) ==
    /\ chatHistory' = trimHistory(updatedMessages)
    /\ replyText' = reply
    /\ outcome' = how
    /\ pc' = "idle"

\* the catch of processWithClaude: the reply is the error, the messages
\* returned are the messages it was called with
ErrorReturn(message, how) == Return(ErrorPrefix \o message, messages, how)

\* handleUserText up to the first create call of processWithClaude
StartRequest(text) ==
    /\ pc = "idle"
    /\ UNCHANGED <<sessionVars, commandVars, unitVars>>
    /\ requests < MaxRequests
    /\ requests' = requests + 1
    /\ prior' = chatHistory
    /\ LET next == Append(chatHistory, UserMessage(text))
       IN /\ messages' = trimHistory(next)
          /\ convo' = trimHistory(next)
          /\ request' = CreateParams(trimHistory(next), DEEP_THINKING)
          /\ attempts' = <<CreateParams(trimHistory(next), DEEP_THINKING)>>
    /\ pc' = "awaitFirst"
    /\ response' = NoResponse
    /\ iterations' = 0
    /\ executedBrowserActions' = {}
    /\ toolIndex' = 0
    /\ toolResultsBlocks' = <<>>
    /\ executedThisResponse' = 0
    /\ stopAfterBrowseSuccess' = FALSE
    /\ callLog' = <<>>
    /\ rounds' = 0
    /\ onlyToolUse' = TRUE
    /\ fellBack' = FALSE
    /\ outcome' = "none"
    /\ UNCHANGED <<cfg, chatHistory, replyText, nextId, rejections>>

\* a create call resolves with response r: the head of the while loop, and
\* the code after the loop when it is left
ServiceResponds(r) ==
    /\ pc \in Awaiting
    /\ UNCHANGED <<sessionVars, commandVars, unitVars>>
    /\ response' = r
    /\ nextId' = nextId + Len(ToolUsesOf(r.content))
    /\ onlyToolUse' =
          (onlyToolUse /\ r.stop_reason = "tool_use" /\ ToolUsesOf(r.content) # <<>>)
    /\ iterations' = IF r.stop_reason = "tool_use" THEN iterations + 1 ELSE iterations
    /\ IF /\ r.stop_reason = "tool_use"
          /\ ~ExceedsIterationCap(iterations + 1, MAX_AGENT_ITERATIONS)
          /\ ToolUsesOf(r.content) # <<>>
       THEN /\ pc' = "tools"
            /\ toolIndex' = 1
            /\ toolResultsBlocks' = <<>>
            /\ executedThisResponse' = 0
            /\ stopAfterBrowseSuccess' = FALSE
            /\ rounds' = rounds + 1
            /\ UNCHANGED <<chatHistory, replyText, outcome, convo>>
       ELSE /\ convo' = Append(convo, AssistantMessage(r.content))
            /\ Return(FinalReplyText(r.content),
                      Append(convo, AssistantMessage(r.content)), "text")
            /\ UNCHANGED <<toolIndex, toolResultsBlocks, executedThisResponse,
                           stopAfterBrowseSuccess, rounds>>
    /\ UNCHANGED <<cfg, prior, messages, request, executedBrowserActions,
                   requests, rejections, attempts, callLog, fellBack>>

\* the first create call rejects: re-issued without thinking when deep
\* thinking is on, thrown to the catch of processWithClaude otherwise
RejectFirst ==
    /\ pc = "awaitFirst"
    /\ UNCHANGED <<sessionVars, commandVars, unitVars>>
    /\ rejections < MaxRejections
    /\ rejections' = rejections + 1
    /\ onlyToolUse' = FALSE
    /\ IF DEEP_THINKING
       THEN /\ request' = FallbackParams(convo)
            /\ attempts' = Append(attempts, FallbackParams(convo))
            /\ fellBack' = TRUE
            /\ pc' = "awaitFirstFallback"
            /\ UNCHANGED <<chatHistory, replyText, outcome>>
       ELSE /\ ErrorReturn(ApiErrorMessage, "serviceError")
            /\ UNCHANGED <<request, attempts, fellBack>>
    /\ UNCHANGED <<cfg, prior, messages, convo, response, iterations,
                   executedBrowserActions, toolIndex, toolResultsBlocks,
                   executedThisResponse, stopAfterBrowseSuccess, requests,
                   nextId, callLog, rounds>>

\* a resubmission rejects: catch (_) re-issues nextParams
RejectNext ==
    /\ pc = "awaitNext"
    /\ UNCHANGED <<sessionVars, commandVars, unitVars>>
    /\ rejections < MaxRejections
    /\ rejections' = rejections + 1
    /\ onlyToolUse' = FALSE
    /\ request' = FallbackParams(convo)
    /\ attempts' = Append(attempts, FallbackParams(convo))
    /\ fellBack' = TRUE
    /\ pc' = "awaitNextFallback"
    /\ UNCHANGED <<cfg, chatHistory, replyText, prior, messages, convo, response,
                   iterations, executedBrowserActions, toolIndex,
                   toolResultsBlocks, executedThisResponse,
                   stopAfterBrowseSuccess, requests, nextId, callLog, rounds,
                   outcome>>

\* a re-issued create call rejects: the error reaches the catch of
\* processWithClaude
RejectFallback ==
    /\ pc \in {"awaitFirstFallback", "awaitNextFallback"}
    /\ UNCHANGED <<sessionVars, commandVars, unitVars>>
    /\ rejections < MaxRejections
    /\ rejections' = rejections + 1
    /\ onlyToolUse' = FALSE
    /\ ErrorReturn(ApiErrorMessage, "serviceError")
    /\ UNCHANGED <<cfg, prior, messages, convo, request, response, iterations,
                   executedBrowserActions, toolIndex, toolResultsBlocks,
                   executedThisResponse, stopAfterBrowseSuccess, requests,
                   nextId, attempts, callLog, rounds, fellBack>>

\* the tools the else-if chain of processWithClaude hands to runTool
OrchestratorTools ==
    {"execute_command", "take_screenshot", "capture_webcam_photo",
     "browse_website", "run_healer"}

\* the ways the handling of toolUse can end, given the loop's state: how the
\* call was treated, its toolResult, and whether the handler threw
ToolCallOutcomes(toolUse) ==
    LET fp == fingerprintBrowserAction(toolUse)
    IN IF ~ShouldExecute(STEP_CONFIRM, executedThisResponse)
       THEN {[how |-> "deferred", toolResult |-> DeferredResult, thrown |-> FALSE]}
       ELSE IF IsDuplicateAction(fp, executedBrowserActions)
       THEN {[how |-> "deduped", toolResult |-> DedupedResult(fp), thrown |-> FALSE]}
       ELSE IF toolUse.name \in OrchestratorTools
       THEN {[how |-> "dispatched",
              toolResult |-> runTool(toolUse.name, toolUse.input, o),
              thrown |-> (o = "thrown")] :
                 o \in HandlerOutcomes(toolUse.name, toolUse.input)}
       ELSE {[how |-> "unknown", toolResult |-> UnknownToolResult(toolUse.name),
              thrown |-> FALSE]}

LogEntry(toolUse, st) ==
    [id |-> toolUse.id, name |-> toolUse.name,
     fp |-> fingerprintBrowserAction(toolUse), how |-> st.how,
     success |-> (~st.thrown /\ st.toolResult.success), thrown |-> st.thrown,
     result |-> st.toolResult,
     bridge |-> (st.how = "dispatched" /\ StartsBridge(toolUse.name, toolUse.input))]

\* one pass of the for loop over toolUses and, after the last pass, the
\* code between the loop and the next create call
ExecTool ==
    /\ pc = "tools"
    /\ UNCHANGED <<sessionVars, commandVars, unitVars>>
    /\ LET toolUses == ToolUsesOf(response.content)
           toolUse == toolUses[toolIndex]
           fp == fingerprintBrowserAction(toolUse)
       IN \E st \in ToolCallOutcomes(toolUse) :
            /\ callLog' = Append(callLog, LogEntry(toolUse, st))
            /\ IF st.thrown
               THEN /\ ErrorReturn(HandlerErrorMessage, "handlerFault")
                    /\ UNCHANGED <<convo, request, attempts, toolIndex,
                                   toolResultsBlocks, executedThisResponse,
                                   executedBrowserActions, stopAfterBrowseSuccess>>
               ELSE LET blocks == PushToolResult(toolResultsBlocks, toolUse, st.toolResult)
                        stop == \/ stopAfterBrowseSuccess
                                \/ /\ st.how = "dispatched"
                                   /\ toolUse.name = "browse_website"
                                   /\ STOP_AFTER_SUCCESSFUL_BROWSE
                                   /\ st.toolResult.success
                        newConvo == convo \o <<AssistantMessage(response.content),
                                               ToolResultsMessage(blocks)>>
                    IN /\ toolResultsBlocks' = blocks
                       /\ stopAfterBrowseSuccess' = stop
                       /\ executedThisResponse' =
                             IF st.how = "dispatched" THEN executedThisResponse + 1
                             ELSE executedThisResponse
                       /\ executedBrowserActions' =
                             IF /\ st.how = "dispatched"
                                /\ toolUse.name \in {"execute_command", "browse_website"}
                             THEN RememberAction(executedBrowserActions, fp, st.toolResult)
                             ELSE executedBrowserActions
                       /\ IF toolIndex < Len(toolUses)
                          THEN /\ toolIndex' = toolIndex + 1
                               /\ UNCHANGED <<pc, convo, request, attempts,
                                              chatHistory, replyText, outcome>>
                          ELSE /\ toolIndex' = toolIndex
                               /\ convo' = newConvo
                               /\ IF stop
                                  THEN /\ Return(BrowserTaskCompleted, newConvo, "browseStop")
                                       /\ UNCHANGED <<request, attempts>>
                                  ELSE /\ request' = CreateParams(newConvo, DEEP_THINKING)
                                       /\ attempts' = <<CreateParams(newConvo, DEEP_THINKING)>>
                                       /\ pc' = "awaitNext"
                                       /\ UNCHANGED <<chatHistory, replyText, outcome>>
    /\ UNCHANGED <<cfg, prior, messages, response, iterations, requests, nextId,
                   rejections, rounds, onlyToolUse, fellBack>>

Next ==
    \/ \E text \in UserTexts : StartRequest(text)
    \/ \E r \in EndResponses \cup ToolUseResponses(nextId) : ServiceResponds(r)
    \/ RejectFirst
    \/ RejectNext
    \/ RejectFallback
    \/ ExecTool

Spec == Init /\ [][Next]_vars

TypeOK ==
    /\ pc \in {"idle", "tools"} \cup Awaiting
    /\ iterations \in 0..(MAX_AGENT_ITERATIONS + 1)
    /\ requests \in 0..MaxRequests
    /\ nextId \in 1..(MaxIds + 1)
    /\ Len(attempts) <= 2
    /\ outcome \in {"none", "text", "browseStop", "serviceError", "handlerFault"}

(***************************************************************************)
(* Observations shared by the properties.                                  *)
(***************************************************************************)
ToolUseIds(content) ==
    LET tu == ToolUsesOf(content) IN [i \in 1..Len(tu) |-> tu[i].id]

ToolResultIds(content) ==
    LET tr == SelectSeq(content, LAMBDA b : b.type = "tool_result")
    IN [i \in 1..Len(tr) |-> tr[i].tool_use_id]

\* the assistant message at position i of ms is answered by the next message
AnsweredAt(ms, i) ==
    /\ i < Len(ms)
    /\ ms[i + 1].role = "user"
    /\ ToolResultIds(ms[i + 1].content) = ToolUseIds(ms[i].content)

\* every assistant message of ms that requests tools is answered
WellPaired(ms) ==
    \A i \in 1..Len(ms) :
        (ms[i].role = "assistant" /\ ToolUsesOf(ms[i].content) # <<>>)
            => AnsweredAt(ms, i)

\* the run has just appended the assistant turn of `response` and its results
TurnRecorded ==
    \/ pc \in {"awaitNext", "awaitNextFallback"}
    \/ pc = "idle" /\ outcome = "browseStop"

\* the calls of the current assistant turn handled so far
TurnLog ==
    LET ids == ToolUseIds(response.content)
    IN SelectSeq(callLog, LAMBDA e : \E k \in 1..Len(ids) : ids[k] = e.id)

Dispatched(log) == {i \in 1..Len(log) : log[i].how = "dispatched"}

(***************************************************************************)
(* C1.  In every message list sent to the reasoning service, each          *)
(* assistant message that holds tool-use requests is immediately followed  *)
(* by a user message carrying exactly one tool result per request id, for  *)
(* all ids of that assistant message, over any sequence of runs on the     *)
(* conversation.                                                           *)
(***************************************************************************)
C1_SentMessagesArePaired == pc \in Awaiting => WellPaired(request.messages)

(***************************************************************************)
(* C2.  For every assistant turn with N tool-use requests handled inside   *)
(* one run, the user turn appended right after it holds exactly N          *)
(* tool_result blocks, the k-th carrying the id of the k-th request.       *)
(***************************************************************************)
C2_ResultsMatchRequests ==
    TurnRecorded =>
        LET n == Len(convo)
            toolUses == ToolUsesOf(response.content)
        IN /\ n >= 2
           /\ convo[n - 1] = AssistantMessage(response.content)
           /\ convo[n].role = "user"
           /\ Len(convo[n].content) = Len(toolUses)
           /\ \A k \in 1..Len(toolUses) :
                 /\ convo[n].content[k].type = "tool_result"
                 /\ convo[n].content[k].tool_use_id = toolUses[k].id
           /\ \A j, k \in 1..Len(convo[n].content) :
                 j # k => convo[n].content[j].tool_use_id # convo[n].content[k].tool_use_id

\* a recorded turn of two calls, a deduplicated one and an unknown tool
C2_Witness ==
    /\ pc = "awaitNext"
    /\ Len(toolResultsBlocks) = 2
    /\ toolResultsBlocks[1].content.deduped
    /\ toolResultsBlocks[2].content.error = <<"Unknown tool: ", "read_file">>
    /\ convo[Len(convo)].content = toolResultsBlocks

(***************************************************************************)
(* C3.  With stepConfirm enabled, for every assistant turn that holds two  *)
(* tool-use requests, exactly one of the two is really executed, the       *)
(* other one's result payload is marked deferred, and both get a tool      *)
(* result record with the matching call id.                                *)
(***************************************************************************)
C3_ExactlyOneExecutes ==
    (STEP_CONFIRM /\ TurnRecorded /\ Len(ToolUsesOf(response.content)) = 2) =>
        /\ Len(TurnLog) = 2
        /\ Cardinality(Dispatched(TurnLog)) = 1
        /\ \E k \in 1..2 : k \notin Dispatched(TurnLog) /\ TurnLog[k].result.deferred
        /\ ToolResultIds(toolResultsBlocks) = ToolUseIds(response.content)

\* C3 as amended: at most one of the two is executed; the second is marked
\* deferred exactly when the first was handed to a handler; both are answered
C3_AtMostOneExecutes ==
    (STEP_CONFIRM /\ TurnRecorded /\ Len(ToolUsesOf(response.content)) = 2) =>
        /\ Len(TurnLog) = 2
        /\ Cardinality(Dispatched(TurnLog)) <= 1
        /\ ~TurnLog[1].result.deferred
        /\ TurnLog[2].result.deferred <=> (TurnLog[1].how = "dispatched")
        /\ TurnLog[2].result.deferred => TurnLog[2].how = "deferred"
        /\ \A k \in 1..2 : toolResultsBlocks[k].content = TurnLog[k].result
        /\ ToolResultIds(toolResultsBlocks) = ToolUseIds(response.content)

C3_Witness ==
    /\ STEP_CONFIRM
    /\ pc = "awaitNext"
    /\ Len(TurnLog) = 2
    /\ TurnLog[1].how = "dispatched"
    /\ TurnLog[1].name = "execute_command"
    /\ toolResultsBlocks[2].content.deferred

(***************************************************************************)
(* C4.  With stepConfirm enabled, at most one tool call of an assistant    *)
(* turn is handed to a tool handler; once one call of the turn has been    *)
(* dispatched, every later call of that turn is marked deferred and no     *)
(* handler runs for it.                                                    *)
(***************************************************************************)
C4_OneDispatchPerTurn ==
    STEP_CONFIRM =>
        /\ Cardinality(Dispatched(TurnLog)) <= 1
        /\ \A i, j \in 1..Len(TurnLog) :
              (i < j /\ TurnLog[i].how = "dispatched") =>
                  /\ TurnLog[j].how = "deferred"
                  /\ TurnLog[j].result.deferred
                  /\ ~TurnLog[j].bridge

C4_Witness ==
    /\ STEP_CONFIRM
    /\ Len(TurnLog) = 2
    /\ TurnLog[1].how = "dispatched"
    /\ TurnLog[1].name = "take_screenshot"
    /\ TurnLog[2].how = "deferred"
    /\ TurnLog[2].name = "browse_website"

(***************************************************************************)
(* C5.  If two browse requests with the same fingerprint (same URL and     *)
(* same task) occur in the same run, the second one gets a deduped         *)
(* payload with success true and the browser bridge is not invoked a       *)
(* second time.                                                            *)
(***************************************************************************)
SameBrowse(a, b) ==
    /\ a.name = "browse_website"
    /\ b.name = "browse_website"
    /\ a.fp # NullFp
    /\ a.fp = b.fp

AnsweredDeduped(e) ==
    /\ e.how = "deduped"
    /\ e.result.deduped
    /\ e.result.success
    /\ ~e.bridge

RunEnded == pc = "idle" /\ outcome # "none"

\* C6 as stated, on the runs in which no tool handler faults
C6_ExactlyCapRounds ==
    /\ rounds <= MAX_AGENT_ITERATIONS
    /\ (RunEnded /\ onlyToolUse /\ outcome # "handlerFault") =>
          (rounds = MAX_AGENT_ITERATIONS /\ replyText # <<>>)

\* C6 as amended: the runs that the stop-after-browse flag or a fault of a
\* tool handler ends do so before the cap
C6_CapRoundsUnlessEndedEarlier ==
    /\ rounds <= MAX_AGENT_ITERATIONS
    /\ RunEnded => replyText # <<>>
    /\ (RunEnded /\ onlyToolUse) =>
          \/ outcome = "text" /\ rounds = MAX_AGENT_ITERATIONS
          \/ outcome = "browseStop" /\ replyText = BrowserTaskCompleted
          \/ outcome = "handlerFault" /\ replyText = ErrorPrefix \o HandlerErrorMessage

C6_Witness ==
    /\ RunEnded
    /\ onlyToolUse
    /\ outcome = "text"
    /\ MAX_AGENT_ITERATIONS = 2
    /\ rounds = 2
    /\ iterations = 3
    /\ replyText = TextOk

(***************************************************************************)
(* C7.  With stopAfterSuccessfulBrowse enabled, the first browse call of   *)
(* a run that executes and succeeds ends the run: the run returns the      *)
(* fixed completion message "Browser task completed.", no further request  *)
(* is sent to the reasoning service, and the returned history ends with    *)
(* that turn's tool results.                                               *)
(***************************************************************************)
BrowseSucceeded ==
    \E i \in 1..Len(callLog) :
        /\ callLog[i].name = "browse_website"
        /\ callLog[i].how = "dispatched"
        /\ callLog[i].success

\* C7: once a browse call has succeeded under the flag, nothing more is sent
\* and the run ends with the fixed message and that turn's results
C7_SuccessfulBrowseEndsRun ==
    (STOP_AFTER_SUCCESSFUL_BROWSE /\ BrowseSucceeded) =>
        /\ pc \notin Awaiting
        /\ pc = "idle" =>
              /\ replyText = BrowserTaskCompleted
              /\ chatHistory # <<>>
              /\ chatHistory[Len(chatHistory)] = ToolResultsMessage(toolResultsBlocks)
              /\ ToolResultIds(toolResultsBlocks) = ToolUseIds(response.content)

(***************************************************************************)
(* C8.  If a reasoning-service call fails during the run of a request,     *)
(* the request's reply is an error text and the history stored for the     *)
(* conversation after the request equals the history stored before it.     *)
(***************************************************************************)
C8_FailureKeepsStoredHistory ==
    (pc = "idle" /\ outcome = "serviceError") =>
        /\ replyText = ErrorPrefix \o ApiErrorMessage
        /\ chatHistory = prior

(***************************************************************************)
(* C9.  With extended reasoning disabled, a reasoning-service request      *)
(* that failed is never re-issued: for the first request and for every     *)
(* resubmission of a run, one failed attempt ends the run.                 *)
(***************************************************************************)
C9_NoReissueWithoutThinking == ~DEEP_THINKING => Len(attempts) <= 1

(***************************************************************************)
(* C10.  With extended reasoning enabled, a rejected request is re-issued  *)
(* once in standard mode (same messages, no reasoning option); the         *)
(* fallback holds for that call only, so the next request of the run is    *)
(* again first issued with extended reasoning; if the standard-mode        *)
(* attempt fails too, the run ends with the error text.                    *)
(***************************************************************************)
C10_FallbackState ==
    DEEP_THINKING =>
        /\ Len(attempts) <= 2
        /\ Len(attempts) >= 1 => attempts[1].thinking
        /\ Len(attempts) = 2 =>
              attempts[2] = [messages |-> attempts[1].messages, thinking |-> FALSE]
        /\ pc \in Awaiting => request = attempts[Len(attempts)]
        /\ pc \in {"awaitFirst", "awaitNext"} => Len(attempts) = 1
        /\ pc \in {"awaitFirstFallback", "awaitNextFallback"} => Len(attempts) = 2
        /\ (pc = "idle" /\ outcome = "serviceError") =>
              (Len(attempts) = 2 /\ replyText = ErrorPrefix \o ApiErrorMessage)

C10_FallbackSteps ==
    (DEEP_THINKING /\ pc \in Awaiting /\ rejections' = rejections + 1) =>
        IF pc \in {"awaitFirst", "awaitNext"}
        THEN /\ pc' \in {"awaitFirstFallback", "awaitNextFallback"}
             /\ request' = [messages |-> request.messages, thinking |-> FALSE]
        ELSE /\ pc' = "idle"
             /\ outcome' = "serviceError"
             /\ replyText' = ErrorPrefix \o ApiErrorMessage

\* C10: every state and every rejection step of a run with extended
\* reasoning follows the fallback rule
C10_ThinkingFallback == []C10_FallbackState /\ [][C10_FallbackSteps]_vars

\* after a fallback, the resubmission is issued with extended reasoning again
C10_Witness ==
    /\ DEEP_THINKING
    /\ fellBack
    /\ pc = "awaitNext"
    /\ Len(attempts) = 1
    /\ request.thinking
    /\ rounds = 1

(***************************************************************************)
(* C11.  Every failure of a tool call dispatched during a run, a fault     *)
(* raised inside a tool handler included, is turned into a tool result     *)
(* record of that turn and fed back to the reasoning service; a tool-level *)
(* failure never ends the run with an error text.                          *)
(***************************************************************************)
\* the ids of the tool results recorded so far by the run
RecordedResultIds ==
    {toolResultsBlocks[k].tool_use_id : k \in 1..Len(toolResultsBlocks)}
        \cup UNION { {convo[i].content[k].tool_use_id :
                         k \in {j \in 1..Len(convo[i].content) :
                                    convo[i].content[j].type = "tool_result"}} :
                     i \in 1..Len(convo) }

\* C11: a dispatched call that failed has its result recorded, and no run
\* ends on a fault of a handler
C11_ToolFailuresAreFedBack ==
    /\ outcome # "handlerFault"
    /\ \A i \in 1..Len(callLog) :
          (callLog[i].how = "dispatched" /\ ~callLog[i].success) =>
              /\ ~callLog[i].thrown
              /\ callLog[i].id \in RecordedResultIds

(***************************************************************************)
(* C12.  Every call skipped by policy, deferred by step-confirmation or    *)
(* deduplicated by fingerprint, is reported in its tool result payload as  *)
(* a successful no-op (success true), never as an error.                   *)
(***************************************************************************)
C12_SkippedCallsAreSuccessfulNoOps ==
    \A i \in 1..Len(callLog) :
        callLog[i].how \in {"deferred", "deduped"} =>
            /\ callLog[i].result.success
            /\ callLog[i].result.error = <<>>

(***************************************************************************)
(* C18.  Within one run, the tool calls of one assistant turn are handled  *)
(* strictly one after another in the order the service emitted them:       *)
(* handling of call k+1 does not start before the result of call k is      *)
(* available, and the resubmission is not issued before the results of     *)
(* all calls of the turn are recorded in the history.                      *)
(***************************************************************************)
C18_CallsHandledInOrder ==
    LET ids == ToolUseIds(response.content)
    IN /\ pc = "tools" =>
            /\ toolIndex \in 1..Len(ids)
            /\ Len(TurnLog) = toolIndex - 1
            /\ \A k \in 1..Len(TurnLog) :
                  /\ TurnLog[k].id = ids[k]
                  /\ ~TurnLog[k].thrown
                  /\ toolResultsBlocks[k].content = TurnLog[k].result
            /\ ToolResultIds(toolResultsBlocks) = SubSeq(ids, 1, toolIndex - 1)
       /\ pc \in {"awaitNext", "awaitNextFallback"} =>
            /\ request.messages = convo
            /\ Len(convo) >= 2
            /\ convo[Len(convo) - 1] = AssistantMessage(response.content)
            /\ convo[Len(convo)] = ToolResultsMessage(toolResultsBlocks)
            /\ ToolResultIds(toolResultsBlocks) = ids
            /\ \A k \in 1..Len(ids) : toolResultsBlocks[k].content = TurnLog[k].result

\* two calls of one turn, both handed to a handler, the first result
\* recorded while the second call is still to be handled
C18_Witness ==
    /\ pc = "tools"
    /\ toolIndex = 2
    /\ Len(TurnLog) = 1
    /\ TurnLog[1].how = "dispatched"
    /\ Len(toolResultsBlocks) = 1
    /\ ToolUsesOf(response.content)[2].name = "execute_command"
    /\ ~STEP_CONFIRM

(***************************************************************************)
(* The session store under overlapping requests (src/telegram.js:          *)
(* chatHistory, trimHistory, handleUserText, bot.on("message")).  Every    *)
(* message handler is an async function: a second message is handled       *)
(* while the first one waits for the reasoning service or for a tool.      *)
(* Arrays are objects of a heap and the store holds references, so that    *)
(* copying and pushing are told apart.  A message carries the chat and     *)
(* the invocation it comes from.                                           *)
(***************************************************************************)
\* conversations
MaxChats == 2
\* invocations of handleUserText over a behaviour
MaxHandlers == 2
\* tool rounds of one run
MaxRunRounds == 1

ChatIds == 1..MaxChats
Handlers == 1..MaxHandlers

\* the number of messages a conversation holds at the start: none (the
\* chat is not in the Map), or a history one short of, or at, the limit
PriorLengths == {0, MAX_HISTORY_MESSAGES - 1, MAX_HISTORY_MESSAGES}

NoRef == <<0, "none">>
InitialRef(c) == <<0 - c, "initial">>
ArraySlots == {"empty", "next", "trimmedNext", "convo", "trimmedUpdated"}
Refs == {InitialRef(c) : c \in ChatIds} \cup (Handlers \X ArraySlots)

\* the messages stored before the behaviour starts
OldMessage(c, i) ==
    [role |-> IF i % 2 = 1 THEN "user" ELSE "assistant", chat |-> c, from |-> 0, n |-> i]
OldHistory(c, len) == [i \in 1..len |-> OldMessage(c, i)]

\* { role: "user", content: text } of invocation h
UserText(c, h) == [role |-> "user", chat |-> c, from |-> h, n |-> 0]
\* the assistant turn and the tool results of round k of the run of h
RoundMessages(c, h, k) ==
    <<[role |-> "assistant", chat |-> c, from |-> h, n |-> 2 * k - 1],
      [role |-> "user", chat |-> c, from |-> h, n |-> 2 * k]>>
\* the final assistant message of the run of h
FinalMessage(c, h) ==
    [role |-> "assistant", chat |-> c, from |-> h, n |-> 2 * MaxRunRounds + 1]

IdleHandler ==
    [pc |-> "idle", chatId |-> 0, prior |-> NoRef, messages |-> NoRef,
     convo |-> NoRef, updatedMessages |-> NoRef, stored |-> NoRef,
     rounds |-> 0, writes |-> 0, priorSeen |-> <<>>, ok |-> FALSE]

InRun == {"awaitCreate", "awaitTool", "awaitHealer"}

\* the messages stored for chat c in store map, heap heap
StoredIn(map, heap, c) == IF map[c] = NoRef THEN <<>> ELSE heap[map[c]]
Stored(c) == StoredIn(chatHistoryMap, arrays, c)

\* a reading of the store that looks at one entry whatever the chat
PriorOfFirstChat(map, chatId, emptyRef) ==
    IF map[1] = NoRef THEN emptyRef ELSE map[1]

\* chatHistory.get(chatId) || []
PriorOf(map, chatId, emptyRef) ==
    IF map[chatId] = NoRef THEN emptyRef ELSE map[chatId]

\* pushing the user message onto the array that was read
NextInPlace(h, priorRef) == priorRef

\* [...prior, { role: "user", content: text }]: a new array
NextRef(h, priorRef) == <<h, "next">>

\* trimHistory on the heap: the array itself, or a new array (slice)
TrimTarget(heap, ref, fresh) ==
    IF Len(heap[ref]) <= MAX_HISTORY_MESSAGES THEN ref ELSE fresh

\* a store that keeps the entry it already has
StoreEntryIfUnset(map, chatId, ref) ==
    IF map[chatId] = NoRef THEN [map EXCEPT ![chatId] = ref] ELSE map

\* chatHistory.set(chatId, ref)
StoreEntry(map, chatId, ref) == [map EXCEPT ![chatId] = ref]

\* the orchestrator at rest, under the default configuration
OrchestratorUnused ==
    /\ cfg = [stepConfirm |-> TRUE, deepThinking |-> FALSE,
              stopAfterSuccessfulBrowse |-> TRUE,
              maxAgentIterations |-> DefaultAgentIterations]
    /\ chatHistory = <<>>
    /\ replyText = <<>>
    /\ pc = "idle"
    /\ prior = <<>>
    /\ messages = <<>>
    /\ convo = <<>>
    /\ request = NoRequest
    /\ response = NoResponse
    /\ iterations = 0
    /\ executedBrowserActions = {}
    /\ toolIndex = 0
    /\ toolResultsBlocks = <<>>
    /\ executedThisResponse = 0
    /\ stopAfterBrowseSuccess = FALSE
    /\ requests = 0
    /\ nextId = 1
    /\ rejections = 0
    /\ attempts = <<>>
    /\ callLog = <<>>
    /\ rounds = 0
    /\ onlyToolUse = TRUE
    /\ fellBack = FALSE
    /\ outcome = "none"

InitSessions ==
    /\ \E len \in [ChatIds -> PriorLengths] :
          /\ chatHistoryMap =
                [c \in ChatIds |-> IF len[c] = 0 THEN NoRef ELSE InitialRef(c)]
          /\ arrays = [r \in Refs |->
                          IF \E c \in ChatIds : r = InitialRef(c)
                          THEN OldHistory(0 - r[1], len[0 - r[1]])
                          ELSE <<>>]
    /\ handlers = [h \in Handlers |-> IdleHandler]
    /\ HEALER_RAN_THIS_PROCESS = [ran |-> FALSE]
    /\ healerSpawns = 0
    /\ writeOrder = <<>>
    /\ OrchestratorUnused
    /\ CommandUnused
    /\ UnitsUnused

\* handleUserText(c, text) up to the first await of processWithClaude:
\* the store is read, next and convo are built
Begin(h, c) ==
    /\ handlers[h].pc = "idle"
    /\ UNCHANGED <<orchestratorVars, commandVars, unitVars>>
    /\ \A g \in Handlers : g < h => handlers[g].pc # "idle"
    /\ LET priorRef == PriorOf(chatHistoryMap, c, <<h, "empty">>)
           nextRef == NextRef(h, priorRef)
           heap1 == [arrays EXCEPT ![nextRef] = Append(arrays[priorRef], UserText(c, h))]
           messagesRef == TrimTarget(heap1, nextRef, <<h, "trimmedNext">>)
           heap2 == [heap1 EXCEPT ![messagesRef] = trimHistory(heap1[nextRef])]
           heap3 == [heap2 EXCEPT ![<<h, "convo">>] = heap2[messagesRef]]
       IN /\ arrays' = heap3
          /\ handlers' = [handlers EXCEPT ![h] =
                [IdleHandler EXCEPT !.pc = "awaitCreate", !.chatId = c,
                                    !.prior = priorRef, !.messages = messagesRef,
                                    !.convo = <<h, "convo">>,
                                    !.priorSeen = arrays[priorRef]]]
    /\ UNCHANGED <<chatHistoryMap, HEALER_RAN_THIS_PROCESS, healerSpawns, writeOrder>>

\* the service asks for a tool other than run_healer; the handler is awaited
ServiceRequestsTool(h) ==
    /\ handlers[h].pc = "awaitCreate"
    /\ UNCHANGED <<orchestratorVars, commandVars, unitVars>>
    /\ handlers[h].rounds < MaxRunRounds
    /\ handlers' = [handlers EXCEPT ![h].pc = "awaitTool"]
    /\ UNCHANGED <<chatHistoryMap, arrays, HEALER_RAN_THIS_PROCESS, healerSpawns,
                   writeOrder>>

\* the service asks for run_healer: runHealer up to its return or its spawn
ServiceRequestsHealer(h) ==
    /\ handlers[h].pc = "awaitCreate"
    /\ UNCHANGED <<orchestratorVars, commandVars, unitVars>>
    /\ handlers[h].rounds < MaxRunRounds
    /\ \E healPathExists \in BOOLEAN :
          IF HEALER_RAN_THIS_PROCESS.ran \/ ~healPathExists
          THEN /\ handlers' = [handlers EXCEPT ![h].pc = "awaitTool"]
               /\ UNCHANGED healerSpawns
          ELSE /\ handlers' = [handlers EXCEPT ![h].pc = "awaitHealer"]
               /\ healerSpawns' = healerSpawns + 1
    /\ UNCHANGED <<chatHistoryMap, arrays, HEALER_RAN_THIS_PROCESS, writeOrder>>

\* convo.push(assistant turn); convo.push(tool results)
PushRound(h) ==
    LET me == handlers[h]
    IN /\ arrays' = [arrays EXCEPT ![me.convo] =
                        arrays[me.convo] \o RoundMessages(me.chatId, h, me.rounds + 1)]
       /\ handlers' = [handlers EXCEPT ![h].pc = "awaitCreate",
                                       ![h].rounds = me.rounds + 1]

\* the awaited tool handler returns and the turn is recorded
ToolReturns(h) ==
    /\ handlers[h].pc = "awaitTool"
    /\ UNCHANGED <<orchestratorVars, commandVars, unitVars>>
    /\ PushRound(h)
    /\ UNCHANGED <<chatHistoryMap, HEALER_RAN_THIS_PROCESS, healerSpawns, writeOrder>>

\* the heal.ps1 child closes, errors or times out: the flag is set and the
\* promise resolves
HealerCloses(h) ==
    /\ handlers[h].pc = "awaitHealer"
    /\ UNCHANGED <<orchestratorVars, commandVars, unitVars>>
    /\ HEALER_RAN_THIS_PROCESS' = [ran |-> TRUE]
    /\ PushRound(h)
    /\ UNCHANGED <<chatHistoryMap, healerSpawns, writeOrder>>

\* chatHistory.set(chatId, trimHistory(updatedMessages)) by invocation h,
\* whose run returned the array updated, in heap heap
StoreUpdated(h, heap, updated, ok) ==
    LET me == handlers[h]
        storedRef == TrimTarget(heap, updated, <<h, "trimmedUpdated">>)
    IN /\ arrays' = [heap EXCEPT ![storedRef] = trimHistory(heap[updated])]
       /\ chatHistoryMap' = StoreEntry(chatHistoryMap, me.chatId, storedRef)
       /\ handlers' = [handlers EXCEPT ![h].pc = "sending",
                                       ![h].updatedMessages = updated,
                                       ![h].stored = storedRef,
                                       ![h].writes = me.writes + 1,
                                       ![h].ok = ok]
       /\ writeOrder' = Append(writeOrder, h)

\* the service ends the run: the final message is pushed, processWithClaude
\* returns convo and handleUserText stores it
RunReturns(h) ==
    /\ handlers[h].pc = "awaitCreate"
    /\ UNCHANGED <<orchestratorVars, commandVars, unitVars>>
    /\ LET me == handlers[h]
           heap == [arrays EXCEPT ![me.convo] =
                       Append(arrays[me.convo], FinalMessage(me.chatId, h))]
       IN StoreUpdated(h, heap, me.convo, TRUE)
    /\ UNCHANGED <<HEALER_RAN_THIS_PROCESS, healerSpawns>>

\* a create call fails: processWithClaude returns its messages argument
RunFails(h) ==
    /\ handlers[h].pc = "awaitCreate"
    /\ UNCHANGED <<orchestratorVars, commandVars, unitVars>>
    /\ StoreUpdated(h, arrays, handlers[h].messages, FALSE)
    /\ UNCHANGED <<HEALER_RAN_THIS_PROCESS, healerSpawns>>

\* sendLongMessage resolves
Sent(h) ==
    /\ handlers[h].pc = "sending"
    /\ UNCHANGED <<orchestratorVars, commandVars, unitVars>>
    /\ handlers' = [handlers EXCEPT ![h].pc = "done"]
    /\ UNCHANGED <<chatHistoryMap, arrays, HEALER_RAN_THIS_PROCESS, healerSpawns,
                   writeOrder>>

NextSessions ==
    \/ \E h \in Handlers, c \in ChatIds : Begin(h, c)
    \/ \E h \in Handlers : ServiceRequestsTool(h)
    \/ \E h \in Handlers : ServiceRequestsHealer(h)
    \/ \E h \in Handlers : ToolReturns(h)
    \/ \E h \in Handlers : HealerCloses(h)
    \/ \E h \in Handlers : RunReturns(h)
    \/ \E h \in Handlers : RunFails(h)
    \/ \E h \in Handlers : Sent(h)

SpecSessions == InitSessions /\ [][NextSessions]_vars

TypeOKSessions ==
    /\ \A c \in ChatIds : chatHistoryMap[c] \in Refs \cup {NoRef}
    /\ \A h \in Handlers :
          handlers[h].pc \in {"idle", "sending", "done"} \cup InRun
    /\ healerSpawns \in 0..MaxHandlers
    /\ Len(writeOrder) <= MaxHandlers

(***************************************************************************)
(* Observations on the session store.                                      *)
(***************************************************************************)
Range(seq) == {seq[i] : i \in 1..Len(seq)}

\* the invocations that have called chatHistory.set for chat c, in order
WritersOf(c) == SelectSeq(writeOrder, LAMBDA h : handlers[h].chatId = c)

HasWritten(h) == \E i \in 1..Len(writeOrder) : writeOrder[i] = h

\* h wrote, and no invocation wrote the entry of its chat after it
IsLastWriter(h) ==
    /\ HasWritten(h)
    /\ LET w == WritersOf(handlers[h].chatId) IN w[Len(w)] = h

WroteBefore(g, h) ==
    \E i, j \in 1..Len(writeOrder) : i < j /\ writeOrder[i] = g /\ writeOrder[j] = h

(***************************************************************************)
(* C13.  The history stored for a conversation is written only at turn     *)
(* boundaries: between the start of a run and its return the run performs  *)
(* no write to the session store (it works on a private copy), and each    *)
(* request performs exactly one write, after its run has returned.         *)
(***************************************************************************)
C13_WritesSoFar ==
    \A h \in Handlers :
        /\ handlers[h].pc \in {"idle"} \cup InRun => handlers[h].writes = 0
        /\ handlers[h].pc \in {"sending", "done"} => handlers[h].writes = 1
        /\ handlers[h].writes = Cardinality({i \in 1..Len(writeOrder) : writeOrder[i] = h})
        /\ handlers[h].pc \in InRun =>
              \A c \in ChatIds : chatHistoryMap[c] \notin
                  {handlers[h].convo, <<h, "next">>, <<h, "trimmedNext">>}

\* what is stored for a chat changes only in the step in which a run
\* returns, and a step inside a run changes only arrays of that run
C13_WriteSteps ==
    /\ \A c \in ChatIds :
          (chatHistoryMap'[c] # chatHistoryMap[c] \/ Stored(c)' # Stored(c)) =>
              \E h \in Handlers :
                  /\ handlers[h].chatId = c
                  /\ handlers[h].pc = "awaitCreate"
                  /\ handlers'[h].pc = "sending"
                  /\ handlers'[h].writes = handlers[h].writes + 1
    /\ \A h \in Handlers :
          ( /\ handlers'[h] # handlers[h]
            /\ handlers[h].pc \in InRun
            /\ handlers'[h].pc \in InRun ) =>
              /\ chatHistoryMap' = chatHistoryMap
              /\ \A r \in Refs : arrays'[r] # arrays[r] => r = handlers[h].convo

\* C13: writes happen once per request, in the step that ends its run
C13_WrittenOnlyAtTurnBoundaries == []C13_WritesSoFar /\ [][C13_WriteSteps]_vars

\* a run that has recorded a tool round on its copy of a stored history
C13_Witness ==
    \E h \in Handlers :
        /\ handlers[h].pc = "awaitCreate"
        /\ handlers[h].rounds = 1
        /\ handlers[h].prior = chatHistoryMap[handlers[h].chatId]
        /\ Len(handlers[h].priorSeen) > 0
        /\ Stored(handlers[h].chatId) = handlers[h].priorSeen
        /\ Len(arrays[handlers[h].convo]) > Len(handlers[h].priorSeen)

(***************************************************************************)
(* C14.  After every completed request, the history stored for the         *)
(* conversation has at most 40 messages and is exactly the last            *)
(* min(40, n) messages of the run's updated history of n messages, in      *)
(* their original order.                                                   *)
(***************************************************************************)
C14_StoredIsRecentSuffix ==
    /\ \A c \in ChatIds : Len(Stored(c)) <= MAX_HISTORY_MESSAGES
    /\ \A h \in Handlers :
          HasWritten(h) =>
              LET u == arrays[handlers[h].updatedMessages]
                  s == arrays[handlers[h].stored]
                  n == Len(u)
              IN /\ Len(s) = Min(MAX_HISTORY_MESSAGES, n)
                 /\ \A i \in 1..Len(s) : s[i] = u[n - Len(s) + i]
                 /\ IsLastWriter(h) => Stored(handlers[h].chatId) = s

\* a request whose updated history exceeded the limit by three messages
C14_Witness ==
    \E h \in Handlers :
        /\ handlers[h].pc = "done"
        /\ handlers[h].ok
        /\ Len(arrays[handlers[h].updatedMessages]) = MAX_HISTORY_MESSAGES + 3
        /\ Len(Stored(handlers[h].chatId)) = MAX_HISTORY_MESSAGES
        /\ Stored(handlers[h].chatId)[1] = OldMessage(handlers[h].chatId, 4)
        /\ Stored(handlers[h].chatId)[MAX_HISTORY_MESSAGES] =
              FinalMessage(handlers[h].chatId, h)

(***************************************************************************)
(* C15.  Two requests for the same conversation whose runs overlap can     *)
(* interleave their read-modify-write of the stored history so that an     *)
(* update is lost: both requests have completed and the stored history     *)
(* lacks the user message and the reply of one of them.                    *)
(***************************************************************************)
\* g wrote first, h read the store before that write and wrote last
Overwrote(h, g) ==
    /\ g # h
    /\ handlers[g].chatId = handlers[h].chatId
    /\ WroteBefore(g, h)
    /\ IsLastWriter(h)
    /\ UserText(handlers[g].chatId, g) \notin Range(handlers[h].priorSeen)

\* C15: the later write replaces the entry, so the earlier request's
\* messages are gone from the store
C15_LaterWriteLosesEarlierUpdate ==
    \A g, h \in Handlers :
        Overwrote(h, g) =>
            /\ UserText(handlers[g].chatId, g) \notin Range(Stored(handlers[h].chatId))
            /\ FinalMessage(handlers[g].chatId, g) \notin Range(Stored(handlers[h].chatId))
            /\ Stored(handlers[h].chatId) = arrays[handlers[h].stored]

\* both requests completed with a reply; the store holds only the second's
C15_Witness ==
    \E g, h \in Handlers :
        /\ Overwrote(h, g)
        /\ handlers[g].pc = "done" /\ handlers[g].ok
        /\ handlers[h].pc = "done" /\ handlers[h].ok
        /\ UserText(handlers[g].chatId, g) \notin Range(Stored(handlers[g].chatId))
        /\ FinalMessage(handlers[g].chatId, g) \notin Range(Stored(handlers[g].chatId))
        /\ UserText(handlers[h].chatId, h) \in Range(Stored(handlers[h].chatId))
        /\ FinalMessage(handlers[h].chatId, h) \in Range(Stored(handlers[h].chatId))

(***************************************************************************)
(* C16.  Requests for different conversations are independent with         *)
(* respect to the session store: under every interleaving, a request for   *)
(* conversation A neither reads nor changes the history stored for a       *)
(* conversation B different from A, and the history stored for A after     *)
(* the request is the same as if no other conversation had run.            *)
(***************************************************************************)
\* what a chat holds is made of its own messages only: the history it
\* started with or what its last writer stored, and every invocation read
\* what its own chat started with or one of its own chat's writers stored
C16_OwnMessagesOnly ==
    /\ \A c \in ChatIds :
          /\ \A m \in Range(Stored(c)) : m.chat = c
          /\ WritersOf(c) = <<>> =>
                Stored(c) = IF chatHistoryMap[c] = NoRef THEN <<>> ELSE arrays[InitialRef(c)]
    /\ \A h \in Handlers :
          handlers[h].pc # "idle" =>
              /\ \A m \in Range(handlers[h].priorSeen) : m.chat = handlers[h].chatId
              /\ \A m \in Range(arrays[handlers[h].convo]) : m.chat = handlers[h].chatId
              /\ \/ handlers[h].priorSeen = <<>>
                 \/ handlers[h].priorSeen = arrays[InitialRef(handlers[h].chatId)]
                 \/ \E g \in Handlers :
                       /\ g # h
                       /\ handlers[g].chatId = handlers[h].chatId
                       /\ HasWritten(g)
                       /\ handlers[h].priorSeen = arrays[handlers[g].stored]
              /\ IsLastWriter(h) => Stored(handlers[h].chatId) = arrays[handlers[h].stored]

\* a step of an invocation leaves the entries of the other chats alone
C16_OtherChatsUntouched ==
    \A h \in Handlers :
        handlers'[h] # handlers[h] =>
            \A c \in ChatIds :
                c # handlers'[h].chatId =>
                    /\ chatHistoryMap'[c] = chatHistoryMap[c]
                    /\ Stored(c)' = Stored(c)

\* C16: the entries of the store are independent of one another
C16_ChatsAreIndependent == []C16_OwnMessagesOnly /\ [][C16_OtherChatsUntouched]_vars

\* two overlapping requests for two chats that both had a history; the one
\* that started second wrote first
C16_Witness ==
    /\ writeOrder = <<2, 1>>
    /\ handlers[1].chatId # handlers[2].chatId
    /\ handlers[1].pc = "done" /\ handlers[1].ok
    /\ handlers[2].pc = "done" /\ handlers[2].ok
    /\ Len(handlers[1].priorSeen) > 0
    /\ Len(handlers[2].priorSeen) > 0
    /\ FinalMessage(handlers[1].chatId, 1) \in Range(Stored(handlers[1].chatId))
    /\ FinalMessage(handlers[2].chatId, 2) \in Range(Stored(handlers[2].chatId))

(***************************************************************************)
(* C17.  Under every interleaving of run_healer invocations in one         *)
(* process lifetime (invocations from concurrent runs included), the       *)
(* repair script process is spawned at most once.                          *)
(***************************************************************************)
C17_HealerSpawnedAtMostOnce == healerSpawns <= 1

(***************************************************************************)
(* executeCommand (src/utils.js): the shell selection and the safety       *)
(* normalisation of a command text, up to the point where a process is     *)
(* spawned or the call is refused.                                         *)
(***************************************************************************)
Quote == "\""
Backslash == "\\"
Slashes == {"\\", "/"}
\* a line terminator, which "." of a regular expression does not match
IsLineTerminator(c) == c \in {"\n", "\r"}

\* the literal lit occurs in s at index i, letter case respected
CaseLitAt(s, i, lit) ==
    /\ i >= 1
    /\ i + Len(lit) - 1 <= Len(s)
    /\ \A k \in 1..Len(lit) : s[i + k - 1] = lit[k]

\* s[a..b] is white space (true of an empty range)
AllSpaces(s, a, b) == \A k \in a..b : k \in 1..Len(s) /\ IsSpace(s[k])

\* String.prototype.includes for a text and a sequence of characters
Contains(s, part) ==
    \E i \in 1..(Len(s) - Len(part) + 1) : CaseLitAt(s, i, part)

LitChromeExe == LitChrome \o LitDotExe
LitNewWindow == <<"-","-","n","e","w","-","w","i","n","d","o","w">>
LitApp == <<"-","-","a","p","p","=">>
LitStartSpace == <<"s","t","a","r","t"," ">>

\* the verbs of the cmdlet pattern, and those of the pipeline pattern
CmdletVerbs ==
    { <<"G","e","t">>, <<"S","e","t">>, <<"N","e","w">>,
      <<"R","e","m","o","v","e">>, <<"W","r","i","t","e">>,
      <<"S","e","l","e","c","t">>, <<"W","h","e","r","e">>,
      <<"F","o","r","E","a","c","h">>, <<"O","u","t">>,
      <<"F","o","r","m","a","t">>, <<"S","t","a","r","t">> }
PipelineVerbs ==
    { <<"S","e","l","e","c","t">>, <<"W","h","e","r","e">>,
      <<"F","o","r","E","a","c","h">>, <<"O","u","t">>,
      <<"F","o","r","m","a","t">> }

\* (verb)-\w+\b at index i
VerbDashWordAt(s, i, verbs) ==
    \E v \in verbs :
        /\ CaseLitAt(s, i, v \o <<"-">>)
        /\ i + Len(v) + 1 <= Len(s)
        /\ IsWordChar(s[i + Len(v) + 1])

\* shouldUsePowerShell: a newline, /\$\w+/, a cmdlet token, a pipeline
\* into a cmdlet
shouldUsePowerShell(command) ==
    /\ command # <<>>
    /\ \/ \E i \in 1..Len(command) : command[i] = "\n"
       \/ \E i \in 1..(Len(command) - 1) :
             command[i] = "$" /\ IsWordChar(command[i + 1])
       \/ \E i \in 1..Len(command) :
             WordBoundary(command, i) /\ VerbDashWordAt(command, i, CmdletVerbs)
       \/ \E i \in 1..Len(command) :
             /\ command[i] = "|"
             /\ VerbDashWordAt(command, SkipSpaces(command, i + 1), PipelineVerbs)

\* a selection that looks at the texts only
detectShellByTextOnly(shell, command, script, use_powershell) ==
    IF script # <<>> /\ shouldUsePowerShell(script) THEN "powershell"
    ELSE IF command # <<>> /\ shouldUsePowerShell(command) THEN "powershell"
    ELSE "cmd"

\* detectShell({shell, command, script, use_powershell}); use_powershell is
\* "true", "false" or "unset"
detectShell(shell, command, script, use_powershell) ==
    IF shell # "auto" THEN shell
    ELSE IF use_powershell \in {"true", "false"}
    THEN (IF use_powershell = "true" THEN "powershell" ELSE "cmd")
    ELSE IF script # <<>> /\ shouldUsePowerShell(script) THEN "powershell"
    ELSE IF command # <<>> /\ shouldUsePowerShell(command) THEN "powershell"
    ELSE "cmd"

\* pickScriptExtension(shell, script)
pickScriptExtension(shell, script) ==
    IF shell = "powershell" THEN ".ps1"
    ELSE IF shell = "bash" THEN ".sh"
    ELSE IF shell = "cmd" THEN ".cmd"
    ELSE IF script # <<>> /\ shouldUsePowerShell(script) THEN ".ps1"
    ELSE ".cmd"

\* /^start\s*$/i
BareStart(t) == LitAt(t, 1, LitStart) /\ AllSpaces(t, 6, Len(t))

\* /^start\s+""\s*$/i
StartEmptyTitle(t) ==
    /\ LitAt(t, 1, LitStart)
    /\ \E a \in 6..Len(t) :
          /\ AllSpaces(t, 6, a)
          /\ CaseLitAt(t, a + 1, <<Quote, Quote>>)
          /\ AllSpaces(t, a + 3, Len(t))

\* /^start\s+"[^"]*"\s*$/i
StartQuotedOnly(t) ==
    /\ LitAt(t, 1, LitStart)
    /\ \E a \in 6..Len(t) :
          /\ AllSpaces(t, 6, a)
          /\ a + 1 <= Len(t)
          /\ t[a + 1] = Quote
          /\ \E b \in (a + 2)..Len(t) :
                /\ t[b] = Quote
                /\ \A k \in (a + 2)..(b - 1) : t[k] # Quote
                /\ AllSpaces(t, b + 1, Len(t))

\* the indices at which the text after /^start(\s+""\s*)?\s+/i can begin
AfterStart(t) ==
    IF ~LitAt(t, 1, LitStart) THEN {}
    ELSE { p \in 7..(Len(t) + 1) :
             \/ AllSpaces(t, 6, p - 1)
             \/ \E a \in 6..(p - 4) :
                   /\ AllSpaces(t, 6, a)
                   /\ CaseLitAt(t, a + 1, <<Quote, Quote>>)
                   /\ AllSpaces(t, a + 3, p - 1) }

\* https?:\/\/\S+ from index i up to index e
UrlSpan(s, i, e) ==
    /\ LitAt(s, i, LitHttp)
    /\ \E j \in {i + 4, i + 5} :
          /\ j = i + 5 => LitAt(s, i + 4, <<"s">>)
          /\ LitAt(s, j, LitColonSlashes)
          /\ j + 3 <= e
          /\ e <= Len(s)
          /\ \A k \in (j + 3)..e : ~IsSpace(s[k])

\* looksLikeUrl: /^https?:\/\/\S+$/i on the trimmed text
looksLikeUrl(maybeUrl) ==
    LET s == Trim(maybeUrl) IN UrlSpan(s, 1, Len(s))

\* a text from which no leading separator is removed
KeepLeadingSlashes(s) == s

\* stripLeadingSlashes: replace(/^[\\/]+/, "")
RECURSIVE stripLeadingSlashes(_)
stripLeadingSlashes(s) ==
    IF s # <<>> /\ Head(s) \in Slashes THEN stripLeadingSlashes(Tail(s)) ELSE s

\* /\bchrome\.exe\b/i
MatchesChromeExe(c) ==
    \E i \in 1..Len(c) :
        /\ WordBoundary(c, i)
        /\ LitAt(c, i, LitChromeExe)
        /\ WordBoundary(c, i + Len(LitChromeExe))

\* /\b--new-window\b/i
MatchesNewWindow(c) ==
    \E i \in 1..Len(c) :
        /\ WordBoundary(c, i)
        /\ LitAt(c, i, LitNewWindow)
        /\ WordBoundary(c, i + Len(LitNewWindow))

\* /\b--app=/i
MatchesApp(c) == \E i \in 1..Len(c) : WordBoundary(c, i) /\ LitAt(c, i, LitApp)

\* s[a..] holds no line terminator: (.*)$
NoLineTerminatorFrom(s, a) == \A k \in a..Len(s) : ~IsLineTerminator(s[k])

\* chrome(?:\.exe)?\b(.*)$ at index i
ChromeRestAt(t, i) ==
    /\ LitAt(t, i, LitChrome)
    /\ \/ WordBoundary(t, i + 6) /\ NoLineTerminatorFrom(t, i + 6)
       \/ /\ LitAt(t, i + 6, LitDotExe)
          /\ WordBoundary(t, i + 10)
          /\ NoLineTerminatorFrom(t, i + 10)

\* rewriteStartChrome(command).didTryChrome
didTryChrome(command) ==
    LET t == Trim(command)
    IN /\ t # <<>>
       /\ \/ /\ LitAt(t, 1, LitStart)
             /\ \E a \in 6..Len(t), b \in 9..Len(t), d \in 10..Len(t) :
                   /\ AllSpaces(t, 6, a)
                   /\ CaseLitAt(t, a + 1, <<Quote, Quote>>)
                   /\ b >= a + 3
                   /\ AllSpaces(t, a + 3, b)
                   /\ d > b
                   /\ \A k \in (b + 1)..d : ~IsLineTerminator(t[k])
                   /\ LitAt(t, d + 1, LitChromeExe)
          \/ /\ CaseLitAt(t, 1, LitStartSpace)
             /\ \E i \in 1..Len(t), d \in 1..Len(t) :
                   /\ \E k \in 1..26 : t[i] = UpperCase[k] \/ t[i] = LowerCase[k]
                   /\ CaseLitAt(t, i + 1, <<":", Backslash>>)
                   /\ d >= i + 3
                   /\ \A k \in (i + 3)..(d - 1) : t[k] \notin {Quote, "'"}
                   /\ LitAt(t, d, LitChromeExe)
          \/ /\ LitAt(t, 1, LitStart)
             /\ \E p \in 7..Len(t) : AllSpaces(t, 6, p - 1) /\ ChromeRestAt(t, p)
          \/ /\ LitAt(t, 1, LitStart)
             /\ \E a \in 6..Len(t), p \in 10..Len(t) :
                   /\ AllSpaces(t, 6, a)
                   /\ CaseLitAt(t, a + 1, <<Quote, Quote>>)
                   /\ p >= a + 4
                   /\ AllSpaces(t, a + 3, p - 1)
                   /\ ChromeRestAt(t, p)
          \/ ChromeRestAt(t, 1)

\* the test that routes an explicit chrome.exe launch to a detached spawn
LooksLikeChromeGui(command) ==
    /\ MatchesChromeExe(command)
    /\ \/ MatchesUrl(command)
       \/ MatchesNewWindow(command)
       \/ MatchesApp(command)

\* the texts of the refusals; a text is a sequence of pieces, the quoted
\* address being spelled character by character
NoCommandText == <<"No command/script provided.">>
NoTargetReason == <<"Refusing to run 'start' with no target (would trigger 'Windows cannot find \\\\' dialog). Specify an app or URL.">>
LeadingSlashReason(stripped) ==
    <<"Looks like a URL with a leading \\\\ or /. ",
      "Use the URL without the leading slash, or ask the bot to browse it. ",
      "Example: ">> \o stripped
UncRootReason == <<"Refusing to run an invalid Windows target path (\\\\) that triggers a popup.">>
MalformedUncReason(target) ==
    <<"Refusing to run a malformed UNC path (">> \o target
        \o <<"). ", "UNC paths must be like \\\\server\\\\share\\\\...">>
InvalidTargetText == <<"Refusing to run an invalid Windows target path (\\\\).">>
BareStartText == <<"Refusing to run 'start' with no target (would trigger Windows 'cannot find \\\\' dialog).">>
ChromeNotStartedText == <<"Chrome did not start (no chrome.exe process detected).">>
ProcessFailedText == <<"Command failed">>
WriteFailedText == <<"EACCES">>

\* the first branch of normalizeCmdStart, with the quoted-title pattern left
\* out
StartWithoutTargetUnquoted(t) == BareStart(t) \/ StartEmptyTitle(t)

\* the first branch of normalizeCmdStart: "start" with no real target
StartWithoutTarget(t) == BareStart(t) \/ StartEmptyTitle(t) \/ StartQuotedOnly(t)

\* /^start(\s+""\s*)?\s+([\\/]+)(https?:\/\/\S+)\s*$/i : the index at which
\* group 3 begins, 0 if the text does not match
SlashedUrlAfterStart(t) ==
    LET hits == { u \in 1..Len(t) :
                    \E p \in AfterStart(t) :
                        /\ p < u
                        /\ \A k \in p..(u - 1) : t[k] \in Slashes
                        /\ \E e \in u..Len(t) :
                              UrlSpan(t, u, e) /\ AllSpaces(t, e + 1, Len(t)) }
    IN IF hits = {} THEN 0 ELSE CHOOSE u \in hits : \A v \in hits : u <= v

\* /^start(\s+""\s*)?\s+\\\\\s*$/i and /^start(\s+""\s*)?\s+\\\s*$/i
UncRootOnly(t) ==
    \E p \in AfterStart(t) :
        \/ CaseLitAt(t, p, <<Backslash, Backslash>>) /\ AllSpaces(t, p + 2, Len(t))
        \/ CaseLitAt(t, p, <<Backslash>>) /\ AllSpaces(t, p + 1, Len(t))

\* /^start(\s+""\s*)?\s+(\\\\[^\\\s]+)\s*$/i : the index at which group 2
\* begins, 0 if the text does not match
MalformedUncAt(t) ==
    LET hits == { p \in AfterStart(t) :
                    /\ CaseLitAt(t, p, <<Backslash, Backslash>>)
                    /\ \E e \in (p + 2)..Len(t) :
                          /\ \A k \in (p + 2)..e :
                                t[k] # Backslash /\ ~IsSpace(t[k])
                          /\ AllSpaces(t, e + 1, Len(t)) }
    IN IF hits = {} THEN 0 ELSE CHOOSE p \in hits : \A q \in hits : p <= q

\* normalizeCmdStart(command)
normalizeCmdStart(command) ==
    LET trimmed == Trim(command)
        stripped == stripLeadingSlashes(trimmed)
        u == SlashedUrlAfterStart(trimmed)
        unc == MalformedUncAt(trimmed)
    IN IF StartWithoutTarget(trimmed)
       THEN [action |-> "reject", reason |-> NoTargetReason, command |-> command]
       ELSE IF stripped # trimmed /\ looksLikeUrl(stripped)
       THEN [action |-> "reject", reason |-> LeadingSlashReason(stripped),
             command |-> command]
       ELSE IF u # 0
       THEN [action |-> "rewrite", reason |-> <<>>,
             command |-> LitStart \o <<" ", Quote, Quote, " ", Quote>>
                           \o SubSeq(trimmed, u, Len(trimmed)) \o <<Quote>>]
       ELSE IF UncRootOnly(trimmed)
       THEN [action |-> "reject", reason |-> UncRootReason, command |-> command]
       ELSE IF unc # 0
       THEN [action |-> "reject",
             reason |-> MalformedUncReason(SubSeq(trimmed, unc, Len(trimmed))),
             command |-> command]
       ELSE [action |-> "ok", reason |-> <<>>, command |-> trimmed]

\* isLikelyInvalidWindowsTarget(target)
isLikelyInvalidWindowsTarget(target) ==
    Trim(target) \in { <<Backslash, Backslash>>, <<Backslash>> }

\* what the operating system does with a process run through exec (exit
\* code zero, another exit code, the timeout, and for a Chrome launch through
\* cmd no chrome.exe in the task list), with the script file to be written,
\* and with a detached launch of Chrome: the spawn throws at once, or its
\* error event arrives later, with chrome.exe in the task list or not
ProcessOutcomes == {"ok", "failed", "timeout", "notRunning"}
ScriptOutcomes == {"ok", "failed", "timeout", "writeFailed"}
LaunchOutcomes ==
    {"ok", "notRunning", "launchThrows", "launchErrorRunning",
     "launchErrorNotRunning"}
ChromeLaunchFailedText == <<"Failed to launch Chrome: ", "spawn EINVAL">>
ProcessTimedOutText == <<"Command failed: timeout">>

\* a return value of executeCommand; failure names what went wrong, uncaught
\* tells that an exception reached the process instead of the return value,
\* detached that the call went to the detached launch of Chrome
Result(success, spawned, error, failure, uncaught) ==
    [success |-> success, spawned |-> spawned, error |-> error,
     failure |-> failure, uncaught |-> uncaught, detached |-> FALSE]

Refused(text) == Result(FALSE, FALSE, text, "refused", FALSE)

\* tryLaunchChromeDetached(commandText): chrome.exe is spawned with no
\* listener for its error event, then tasklist tells whether it runs
tryLaunchChromeDetached(os) ==
    [ (IF os = "ok" THEN Result(TRUE, TRUE, <<>>, "none", FALSE)
       ELSE IF os = "launchThrows"
       THEN Result(FALSE, TRUE, ChromeLaunchFailedText, "launch", FALSE)
       ELSE IF os = "launchErrorRunning"
       THEN Result(TRUE, TRUE, <<>>, "launch", TRUE)
       ELSE IF os = "launchErrorNotRunning"
       THEN Result(FALSE, TRUE, ChromeNotStartedText, "launch", TRUE)
       ELSE Result(FALSE, TRUE, ChromeNotStartedText, "notRunning", FALSE))
      EXCEPT !.detached = TRUE ]

\* execPromise(cmd, ...) and what follows it
execPromise(os) ==
    IF os = "ok" THEN Result(TRUE, TRUE, <<>>, "none", FALSE)
    ELSE IF os = "notRunning"
    THEN Result(FALSE, TRUE, ChromeNotStartedText, "notRunning", FALSE)
    ELSE IF os = "timeout"
    THEN Result(FALSE, TRUE, ProcessTimedOutText, "timeout", FALSE)
    ELSE Result(FALSE, TRUE, ProcessFailedText, "exit", FALSE)

\* the outcomes of the operating system that the call can meet
OutcomesFor(call) ==
    IF Trim(call.script) # <<>> THEN ScriptOutcomes
    ELSE LET cmdText == Trim(call.command)
             effectiveShell == detectShell(call.shell, call.command,
                                           call.script, call.use_powershell)
         IN IF /\ effectiveShell = "cmd"
               /\ \/ didTryChrome(call.command)
                  \/ LooksLikeChromeGui(call.command)
            THEN LaunchOutcomes
            ELSE IF /\ effectiveShell = "cmd"
                    /\ \/ MatchesStart(cmdText)
                       \/ LitAt(cmdText, 1, LitChrome)
                          /\ \/ WordBoundary(cmdText, 7)
                             \/ LitAt(cmdText, 7, LitDotExe)
                                /\ WordBoundary(cmdText, 11)
                    /\ MatchesChrome(cmdText)
            THEN ProcessOutcomes
            ELSE ProcessOutcomes \ {"notRunning"}

\* executeCommand({command, script, shell, use_powershell}) under the
\* outcome os of the operating system; the return value is given with the
\* shell that line 1342 selected, with which of the two texts the call went
\* on with (lines 1344-1352) and with the extension of the script file
executeCommand(call, os) ==
    LET effectiveShell == detectShell(call.shell, call.command, call.script,
                                      call.use_powershell)
        hasScript == Trim(call.script) # <<>>
        hasCommand == Trim(call.command) # <<>>
        normalized == normalizeCmdStart(call.command)
        command == IF normalized.action = "rewrite"
                   THEN normalized.command ELSE call.command
    IN (IF ~hasScript /\ ~hasCommand THEN Refused(NoCommandText)
       ELSE IF hasScript
       THEN (IF os = "writeFailed"
             THEN Result(FALSE, FALSE, WriteFailedText, "write", FALSE)
             ELSE execPromise(os))
       ELSE IF effectiveShell = "cmd" /\ didTryChrome(call.command)
       THEN tryLaunchChromeDetached(os)
       ELSE IF effectiveShell = "cmd" /\ LooksLikeChromeGui(call.command)
       THEN tryLaunchChromeDetached(os)
       ELSE IF effectiveShell = "cmd" /\ normalized.action = "reject"
       THEN Refused(normalized.reason)
       ELSE IF effectiveShell = "cmd" /\ isLikelyInvalidWindowsTarget(Trim(command))
       THEN Refused(InvalidTargetText)
       ELSE IF effectiveShell \in {"powershell", "bash"} THEN execPromise(os)
       ELSE IF BareStart(Trim(command)) \/ StartEmptyTitle(Trim(command))
       THEN Refused(BareStartText)
       ELSE execPromise(os))
       @@ [shell |-> effectiveShell,
           ran |-> IF hasScript THEN "script"
                   ELSE IF hasCommand THEN "command" ELSE "none",
           ext |-> IF hasScript
                   THEN pickScriptExtension(effectiveShell, call.script)
                   ELSE "none"]

(***************************************************************************)
(* The calls of executeCommand: one call per behaviour, its arguments      *)
(* drawn from texts built of the pieces the patterns above look for.       *)
(***************************************************************************)
MaxSeparators == 2

StartWords == { LitStart, <<"S","t","a","r","t">> }
Gaps == { <<" ">>, <<"\t", " ">> }
Trails == { <<>>, <<" ">>, <<"\n">> }
\* what stands between the quotes of a title
Titles ==
    { <<>>, <<"a">>, <<"a"," ","b">>, <<"$","x">>, <<"G","e","t","-","x">>,
      <<"C",":",Backslash>> \o LitChromeExe,
      LitChromeExe,
      LitChromeExe \o <<" ">> \o LitHttp \o LitColonSlashes \o <<"a">> }
\* "start", "start" and a quoted text, each with trailing white space
EmptyLaunchTexts ==
    { w \o t : w \in StartWords, t \in Trails }
      \cup { w \o g \o <<Quote>> \o q \o <<Quote>> \o t :
               w \in StartWords, g \in Gaps, q \in Titles, t \in Trails }

Separators ==
    UNION { [1..n -> Slashes] : n \in 1..MaxSeparators }
HttpA == LitHttp \o LitColonSlashes \o <<"a">>
\* texts of the form http(s)://<non-space characters>
Addresses ==
    { HttpA,
      LitHttp \o <<"s">> \o LitColonSlashes \o <<"a">>,
      <<"H","T","T","P">> \o LitColonSlashes \o <<"a">>,
      HttpA \o <<"/","$","b">>,
      HttpA \o <<"/","G","e","t","-","x">>,
      HttpA \o <<"|","O","u","t","-","x">>,
      HttpA \o <<"/">> \o LitChromeExe }
\* texts that are no such address
NonAddresses ==
    { HttpA \o <<" ","b">>,
      <<"f","t","p">> \o LitColonSlashes \o <<"a">>,
      LitHttp \o LitColonSlashes }
SlashedTexts ==
    { s \o a \o t : s \in Separators, a \in Addresses \cup NonAddresses,
                    t \in {<<>>, <<"\n">>} }

LitVersionFlag == <<" ", "-", "-", "v", "e", "r", "s", "i", "o", "n">>
OtherTexts ==
    { <<>>, <<" ">>, <<"d","i","r">>, <<"G","e","t","-","x">>,
      <<Backslash>>, <<Backslash, Backslash>>,
      LitStart \o <<" ","a">>,
      LitStart \o <<" ", Quote, Quote, " ", "a">>,
      LitStart \o <<" ", Quote, "a", Quote, " ", "b">>,
      LitStart \o <<" ", Backslash, Backslash>>,
      LitStart \o <<" ", Quote, Quote, " ", Backslash>>,
      LitStart \o <<" ", Backslash, Backslash, "s","r","v">>,
      LitStart \o <<" ", Backslash>> \o HttpA,
      LitStart \o <<" ">> \o LitChrome,
      LitStart \o <<" ", Quote, Quote, " ">> \o LitChromeExe,
      LitStart \o <<" ", Quote, Quote, " ", "C", ":", Backslash>> \o LitChromeExe,
      LitChrome \o <<" ">> \o HttpA,
      LitChromeExe \o LitVersionFlag,
      LitChrome \o <<" ">> \o LitNewWindow,
      <<Quote, "C", ":", Backslash>> \o LitChromeExe \o <<Quote>> \o LitVersionFlag,
      <<Quote, "C", ":", Backslash>> \o LitChromeExe \o <<Quote, " ">> \o HttpA,
      <<"C", ":", Backslash>> \o LitChromeExe \o <<" ">> \o LitNewWindow,
      HttpA,
      <<"G","e","t","-","x","\n","d","i","r">>,
      <<"g","e","t","-","x">>, <<"x","G","e","t","-","x">>,
      <<"e","c","h","o"," ","$"," ","x">>,
      <<"d","i","r"," ","|"," ","O","u","t","-","x">>,
      <<"d","i","r"," ","|"," ","m","o","r","e">> }

CommandTexts == EmptyLaunchTexts \cup SlashedTexts \cup OtherTexts
ScriptTexts == { <<>>, <<"d","i","r">>, <<"e","c","h","o"," ","$","x">> }
Shells == {"auto", "cmd", "powershell", "bash"}
\* use_powershell: a boolean, or not given
UsePowerShell == {"true", "false", "unset"}

NoResult == <<>>

InitCommand ==
    /\ cmdCall \in [command : CommandTexts, script : ScriptTexts,
                    shell : Shells, use_powershell : UsePowerShell]
    /\ cmdResult = NoResult
    /\ OrchestratorUnused
    /\ SessionsUnused
    /\ UnitsUnused

\* one call of executeCommand, from its arguments to its return value
ExecuteCommand ==
    /\ cmdResult = NoResult
    /\ UNCHANGED <<orchestratorVars, sessionVars, unitVars>>
    /\ \E os \in OutcomesFor(cmdCall) :
          cmdResult' = executeCommand(cmdCall, os)
    /\ UNCHANGED cmdCall

NextCommand == ExecuteCommand

SpecCommand == InitCommand /\ [][NextCommand]_vars

TypeOKCommand ==
    /\ cmdCall.command \in CommandTexts
    /\ cmdCall.shell \in Shells
    /\ cmdResult # NoResult =>
          /\ cmdResult.success \in BOOLEAN
          /\ cmdResult.spawned \in BOOLEAN
          /\ cmdResult.success => cmdResult.spawned

(***************************************************************************)
(* Observations on a call of executeCommand.                               *)
(***************************************************************************)
Returned == cmdResult # NoResult
RefusedWithoutSpawn == ~cmdResult.success /\ ~cmdResult.spawned
EffectiveShell ==
    detectShell(cmdCall.shell, cmdCall.command, cmdCall.script,
                cmdCall.use_powershell)
\* the two tests that hand the text to a detached launch of Chrome
TakenForChromeLaunch ==
    didTryChrome(cmdCall.command) \/ LooksLikeChromeGui(cmdCall.command)
\* the text is one or two separators followed by an http(s) address: the
\* address, white space around the text set aside
SlashedAddressesOf(text) ==
    { a \in Addresses : \E s \in Separators : Trim(text) = s \o a }

\* C19 as stated: for every command text matching the empty-launch-target
\* pattern (bare start, start "", start "<quoted text>") and for every
\* shell selection, executeCommand returns success false and spawns no
\* process.
C19_EmptyLaunchRefusedUnderEveryShell ==
    (Returned /\ cmdCall.script = <<>> /\ cmdCall.command \in EmptyLaunchTexts)
        => RefusedWithoutSpawn

\* C19: for every command text matching the empty-launch-target pattern,
\* given without a script, whose effective shell is cmd and which is not
\* taken for a launch of Chrome, executeCommand returns success false with
\* the no-target refusal and spawns no process.
C19_EmptyLaunchRefusedUnderCmd ==
    ( /\ Returned
      /\ cmdCall.script = <<>>
      /\ cmdCall.command \in EmptyLaunchTexts
      /\ EffectiveShell = "cmd"
      /\ ~TakenForChromeLaunch )
        => RefusedWithoutSpawn /\ cmdResult.error = NoTargetReason

C19_Witness ==
    /\ Returned
    /\ cmdCall.command =
          LitStart \o <<" ", Quote, "a", " ", "b", Quote>>
    /\ cmdCall.script = <<>>
    /\ cmdCall.shell = "auto"
    /\ cmdCall.use_powershell = "unset"
    /\ RefusedWithoutSpawn
    /\ cmdResult.error = NoTargetReason

\* C20 as stated: for every command text that is one or two leading path
\* separators followed by an http(s) address, whatever else the address
\* contains, executeCommand under automatic shell selection returns success
\* false, spawns no process, and its error text contains the address
\* without the leading separators.
C20_SlashedAddressRefusedUnderAuto ==
    \A s \in Separators, a \in Addresses :
        ( /\ Returned
          /\ cmdCall.script = <<>>
          /\ cmdCall.shell = "auto"
          /\ cmdCall.use_powershell = "unset"
          /\ cmdCall.command = s \o a )
            => RefusedWithoutSpawn /\ Contains(cmdResult.error, a)

\* C20: for every command text that is, white space around it set aside,
\* one or two leading path separators followed by an http(s) address, given
\* without a script, whose effective shell is cmd and which does not hold
\* the word chrome.exe, executeCommand returns success false, spawns no
\* process, and its error text contains the address without the leading
\* separators.
C20_SlashedAddressRefusedUnderCmd ==
    \A a \in SlashedAddressesOf(cmdCall.command) :
        ( /\ Returned
          /\ cmdCall.script = <<>>
          /\ EffectiveShell = "cmd"
          /\ ~MatchesChromeExe(cmdCall.command) )
            => RefusedWithoutSpawn /\ Contains(cmdResult.error, a)

C20_Witness ==
    LET address == LitHttp \o <<"s">> \o LitColonSlashes \o <<"a">>
    IN /\ Returned
       /\ cmdCall.command = <<"/", Backslash>> \o address
       /\ cmdCall.script = <<>>
       /\ cmdCall.shell = "auto"
       /\ cmdCall.use_powershell = "unset"
       /\ RefusedWithoutSpawn
       /\ cmdResult.error = LeadingSlashReason(address)

\* C21: executeCommand never raises: for every input and every failure
\* (missing fields, spawn failure, nonzero exit, timeout, script-file write
\* failure, browser launch failure) it returns success false with the
\* failure in the error field, and no exception escapes.
C21_NeverRaises ==
    Returned =>
        /\ ~cmdResult.uncaught
        /\ cmdResult.failure # "none" =>
              ~cmdResult.success /\ cmdResult.error # <<>>

\* the marks of a text for the structured shell: a newline, a variable
\* sigil followed by an identifier, a listed verb-noun token, a pipe into
\* one of the listed verbs
HasNewline(text) == \E i \in 1..Len(text) : text[i] = "\n"
HasSigilIdentifier(text) ==
    \E i \in 1..(Len(text) - 1) : text[i] = "$" /\ IsWordChar(text[i + 1])
VerbNounAt(text, i, verbs) ==
    \E v \in verbs :
        /\ i + Len(v) + 1 <= Len(text)
        /\ SubSeq(text, i, i + Len(v)) = v \o <<"-">>
        /\ IsWordChar(text[i + Len(v) + 1])
HasVerbNounToken(text) ==
    \E i \in 1..Len(text) :
        /\ i = 1 \/ ~IsWordChar(text[i - 1])
        /\ VerbNounAt(text, i, CmdletVerbs)
HasPipeIntoVerb(text) ==
    \E i \in 1..Len(text), j \in 1..Len(text) :
        /\ text[i] = "|"
        /\ i < j
        /\ \A k \in (i + 1)..(j - 1) : IsSpace(text[k])
        /\ VerbNounAt(text, j, PipelineVerbs)
Structured(text) ==
    \/ HasNewline(text)
    \/ HasSigilIdentifier(text)
    \/ HasVerbNounToken(text)
    \/ HasPipeIntoVerb(text)
ExpectedShell(call) ==
    IF call.shell # "auto" THEN call.shell
    ELSE IF call.use_powershell = "true" THEN "powershell"
    ELSE IF call.use_powershell = "false" THEN "cmd"
    ELSE IF Structured(call.script) \/ Structured(call.command) THEN "powershell"
    ELSE "cmd"

\* C22: the shell a call selects is the explicit hint whenever it is not
\* auto, whatever the texts and use_powershell are; otherwise the boolean
\* use_powershell decides; otherwise it is the structured shell exactly
\* when the script or the command text holds a newline, a sigil followed by
\* an identifier, a listed verb-noun token or a pipe into a listed verb,
\* and the basic interpreter in every other case.
C22_ShellSelection == Returned => cmdResult.shell = ExpectedShell(cmdCall)

C22_Witness ==
    /\ Returned
    /\ cmdCall.command = <<"G","e","t","-","x","\n","d","i","r">>
    /\ cmdCall.script = <<>>
    /\ cmdCall.shell = "auto"
    /\ cmdCall.use_powershell = "unset"
    /\ cmdResult.shell = "powershell"

\* the calls of the log that name no registered tool
UnknownCalls(log) == {i \in 1..Len(log) : log[i].name \notin RegisteredTools}
\* the envelope the registry returns for such a name, whatever a handler
\* would do
RegistryAnswersUnknown(name) ==
    \A o \in {"ok", "failed", "thrown"} :
        runTool(name, NoInput, o) = Envelope(FALSE, <<"Unknown tool: ", name>>)

\* C23 as stated: for every tool name outside the five registered tools,
\* runTool returns {success false, error "Unknown tool: <name>"} without
\* throwing and without running a handler, and the orchestrator records
\* the same envelope as the call's tool result without counting the call
\* as executed.
C23_UnknownToolEnvelopeRecorded ==
    \A i \in UnknownCalls(callLog) :
        /\ RegistryAnswersUnknown(callLog[i].name)
        /\ ~callLog[i].thrown
        /\ callLog[i].how # "dispatched"
        /\ callLog[i].result = Envelope(FALSE, <<"Unknown tool: ", callLog[i].name>>)

\* C23: for every tool name outside the five registered tools, runTool
\* returns {success false, error "Unknown tool: <name>"}; the orchestrator
\* runs no handler for such a call, never counts it as executed, and
\* records that envelope as its tool result unless step-by-step mode defers
\* the call (a call of the same turn was executed before it), in which
\* case the deferred payload is recorded.
C23_UnknownToolEnvelopeUnlessDeferred ==
    /\ \A i \in UnknownCalls(callLog) :
          /\ RegistryAnswersUnknown(callLog[i].name)
          /\ ~callLog[i].thrown
          /\ ~callLog[i].bridge
          /\ callLog[i].how \in {"unknown", "deferred"}
          /\ callLog[i].how = "unknown" =>
                callLog[i].result =
                    Envelope(FALSE, <<"Unknown tool: ", callLog[i].name>>)
          /\ callLog[i].how = "deferred" => callLog[i].result = DeferredResult
    /\ \A i \in UnknownCalls(TurnLog) :
          /\ TurnLog[i].how = "deferred" <=>
                /\ STEP_CONFIRM
                /\ \E j \in 1..(i - 1) : TurnLog[j].how = "dispatched"
          /\ \A k \in 1..Len(toolResultsBlocks) :
                toolResultsBlocks[k].tool_use_id = TurnLog[i].id =>
                    toolResultsBlocks[k].content = TurnLog[i].result
    /\ pc = "tools" => executedThisResponse = Cardinality(Dispatched(TurnLog))

C23_Witness ==
    /\ pc = "awaitNext"
    /\ Len(TurnLog) = 1
    /\ TurnLog[1].name = "read_file"
    /\ TurnLog[1].how = "unknown"
    /\ Len(toolResultsBlocks) = 1
    /\ toolResultsBlocks[1].tool_use_id = TurnLog[1].id
    /\ toolResultsBlocks[1].content =
          Envelope(FALSE, <<"Unknown tool: ", "read_file">>)
    /\ executedThisResponse = 0

(***************************************************************************)
(* The final text of a run (src/telegram.js 374-397): the text blocks of   *)
(* the last response are joined, the prompt lines are dropped, and an      *)
(* empty rest is replaced by the default message.                          *)
(***************************************************************************)
MaxTextBlocks == 2

TextWouldYouLike ==
    <<"W","o","u","l","d"," ","y","o","u"," ","l","i","k","e"," ","m","e",
      " ","t","o"," ","p","r","o","c","e","e","d","?">>
FinalTexts ==
    { <<>>, <<" ", " ">>, TextOk, TextContinueOrStop, TextWouldYouLike,
      TextOk \o <<"\n">> \o TextContinueOrStop \o <<"\n">> \o TextWouldYouLike,
      <<" ">> \o TextOk \o <<"\n"," ","c","o","n","t","i","n","u","e"," "," ",
                              "o","r","\t","S","T","O","P","?"," ">>,
      <<"c","o","n","t","i","n","u","e","\n","o","r"," ","s","t","o","p","?">>,
      <<"w","o","u","l","d"," ","y","o","u"," ","l","i","k","e"," ","m","e",
        " ","t","o"," ","s","t","o","p">> }
\* the content of a last response: text blocks, and possibly the tool_use
\* block of a response cut off by the iteration cap
FinalContents ==
    LET texts == UNION { [1..n -> FinalTexts] : n \in 0..MaxTextBlocks }
        blocks(ts) == [i \in 1..Len(ts) |-> TextBlock(ts[i])]
    IN { blocks(ts) : ts \in texts }
         \cup { blocks(ts) \o ToolUseBlocks(<<[name |-> "take_screenshot",
                                               input |-> NoInput]>>, 1) :
                  ts \in texts }

NoReply == <<"pending">>

InitFinalText ==
    /\ finalContent \in FinalContents
    /\ finalReply = NoReply
    /\ OrchestratorUnused
    /\ SessionsUnused
    /\ CommandUnused
    /\ FinalOthersUnused

\* lines 380-396: textContent, the two filters, the default
ReturnFinalText ==
    /\ finalReply = NoReply
    /\ UNCHANGED <<orchestratorVars, sessionVars, commandVars, finalOthers>>
    /\ finalReply' = FinalReplyText(finalContent)
    /\ UNCHANGED finalContent

NextFinalText == ReturnFinalText

SpecFinalText == InitFinalText /\ [][NextFinalText]_vars

\* a line asks the user whether to continue
IsContinuePrompt(line) == MatchesContinueOrStop(line) \/ MatchesWouldYouLike(line)
\* nothing of the text is left once the prompt lines are dropped
NothingLeft(text) ==
    \A k \in 1..Len(SplitLines(text)) :
        LET line == SplitLines(text)[k]
        IN IsContinuePrompt(line) \/ Trim(line) = <<>>

\* C24: the final text a run returns holds no line matching the
\* continue-prompt denylist and is never empty; when the model's text is
\* empty or entirely stripped, the default completion message is returned.
C24_FinalTextHasNoContinuePrompt ==
    finalReply # NoReply =>
        /\ finalReply # <<>>
        /\ \A k \in 1..Len(SplitLines(finalReply)) :
              ~IsContinuePrompt(SplitLines(finalReply)[k])
        /\ NothingLeft(TextContentOf(finalContent)) => finalReply = TaskCompleted

C24_Witness ==
    /\ finalContent =
          <<TextBlock(TextContinueOrStop), TextBlock(TextWouldYouLike)>>
    /\ finalReply = TaskCompleted

(***************************************************************************)
(* The message transport (src/utils.js 68-129): isTransientNetworkError,   *)
(* withRetries, and the three helpers that wrap it.                        *)
(***************************************************************************)
SendRetries == 4
BaseDelayMs == 500
MaxDelayMs == 15000

SendKinds == {"sendMessage", "sendPhoto", "sendDocument"}

\* what bot.sendX can reject with: err.code, err.message, err.cause.code
TransportError(code, message, causeCode) ==
    [code |-> code, message |-> message, causeCode |-> causeCode]
TransportErrors ==
    { TransportError("ECONNRESET", <<"r","e","a","d"," ","E","C","O","N","N","R","E","S","E","T">>, ""),
      TransportError("EFATAL", <<>>, ""),
      TransportError("", <<"S","o","c","k","e","t"," ","H","a","n","g"," ","U","p">>, ""),
      TransportError("", <<>>, "EAI_AGAIN"),
      TransportError("ETELEGRAM", <<"4","0","0"," ","B","a","d"," ","R","e","q","u","e","s","t">>, ""),
      TransportError("", <<>>, "") }

\* how one call of fn ended
Delivered == [ok |-> TRUE, err |-> TransportError("", <<>>, "")]
Rejected(e) == [ok |-> FALSE, err |-> e]
TransientCodes ==
    {"ECONNRESET", "ENOTFOUND", "EAI_AGAIN", "ETIMEDOUT", "ECONNREFUSED", "EFATAL"}
TransientWords ==
    { <<"e","c","o","n","n","r","e","s","e","t">>,
      <<"e","n","o","t","f","o","u","n","d">>,
      <<"e","t","i","m","e","d","o","u","t">>,
      <<"s","o","c","k","e","t"," ","h","a","n","g"," ","u","p">> }

\* isTransientNetworkError(err): code is err.code || err.cause.code
isTransientNetworkError(err) ==
    LET code == IF err.code # "" THEN err.code ELSE err.causeCode
        msg == ToLower(err.message)
    IN \/ code \in TransientCodes
       \/ \E w \in TransientWords : Contains(msg, w)

\* the call ended with an error that isTransientNetworkError accepts
EndedTransient(entry) == ~entry.ok /\ isTransientNetworkError(entry.err)

RECURSIVE Pow2(_)
Pow2(n) == IF n = 0 THEN 1 ELSE 2 * Pow2(n - 1)

\* a delay that is not capped
RetryDelayUncapped(baseDelayMs, maxDelayMs, attempt) ==
    baseDelayMs * Pow2(attempt - 1)

\* Math.min(maxDelayMs, baseDelayMs * Math.pow(2, attempt - 1))
RetryDelay(baseDelayMs, maxDelayMs, attempt) ==
    Min(maxDelayMs, baseDelayMs * Pow2(attempt - 1))

\* a test that allows one attempt more
GivesUpLate(e, attempt, retries) ==
    ~isTransientNetworkError(e) \/ attempt > retries + 1

\* if (!isTransientNetworkError(e) || attempt > retries) throw e
GivesUp(e, attempt, retries) ==
    ~isTransientNetworkError(e) \/ attempt > retries

InitSend ==
    /\ SendUnused
    /\ OrchestratorUnused
    /\ SessionsUnused
    /\ CommandUnused
    /\ SendOthersUnused

\* safeSendX(chatId, payload, options) is called
SendCalled(kind) ==
    /\ sendPc = "idle"
    /\ UNCHANGED <<orchestratorVars, sessionVars, commandVars, sendOthers>>
    /\ sendResult = "none"
    /\ sendKind' = kind
    /\ sendPc' = "calling"
    /\ UNCHANGED <<sendAttempt, sendLog, sendDelay, sendResult>>

\* return await fn() succeeds: the helper returns true
SendSucceeds ==
    /\ sendPc = "calling"
    /\ UNCHANGED <<orchestratorVars, sessionVars, commandVars, sendOthers>>
    /\ sendLog' = Append(sendLog, Delivered)
    /\ sendResult' = "true"
    /\ sendPc' = "done"
    /\ UNCHANGED <<sendKind, sendAttempt, sendDelay>>

\* fn() rejects with e: withRetries rethrows, and the helper's catch
\* returns false, or it sleeps before the next call
SendFails(e) ==
    /\ sendPc = "calling"
    /\ UNCHANGED <<orchestratorVars, sessionVars, commandVars, sendOthers>>
    /\ sendLog' = Append(sendLog, Rejected(e))
    /\ sendAttempt' = sendAttempt + 1
    /\ IF GivesUp(e, sendAttempt + 1, SendRetries)
       THEN /\ sendResult' = "false"
            /\ sendPc' = "done"
            /\ UNCHANGED sendDelay
       ELSE /\ sendDelay' = RetryDelay(BaseDelayMs, MaxDelayMs, sendAttempt + 1)
            /\ sendPc' = "sleeping"
            /\ UNCHANGED sendResult
    /\ UNCHANGED sendKind

\* await sleep(delay) ends
SendWakes ==
    /\ sendPc = "sleeping"
    /\ UNCHANGED <<orchestratorVars, sessionVars, commandVars, sendOthers>>
    /\ sendPc' = "calling"
    /\ UNCHANGED <<sendKind, sendAttempt, sendLog, sendDelay, sendResult>>

NextSend ==
    \/ \E kind \in SendKinds : SendCalled(kind)
    \/ SendSucceeds
    \/ \E e \in TransportErrors : SendFails(e)
    \/ SendWakes

SpecSend == InitSend /\ [][NextSend]_vars

\* C25: the helpers never raise; each returns true if and only if one of
\* its attempts succeeded, re-attempts only after an error classified as
\* transient network, makes at most 5 attempts, and returns false after a
\* non-transient error without a further attempt.
C25_TransportNeverRaises ==
    /\ Len(sendLog) <= 5
    /\ \A i \in 1..(Len(sendLog) - 1) : EndedTransient(sendLog[i])
    /\ sendPc = "done" =>
          /\ sendResult \in {"true", "false"}
          /\ sendResult = "true" <=> sendLog[Len(sendLog)].ok
    /\ \A i \in 1..Len(sendLog) :
          (~sendLog[i].ok /\ ~EndedTransient(sendLog[i])) =>
              /\ i = Len(sendLog)
              /\ sendPc = "done"
              /\ sendResult = "false"
    /\ sendPc # "done" => sendResult = "none"

\* five attempts, all failing with transient errors
C25_Witness ==
    /\ sendPc = "done"
    /\ Len(sendLog) = 5
    /\ EndedTransient(sendLog[5])
    /\ sendResult = "false"
    /\ sendDelay = 4000

\* ---------------------------------------------------------------------
\* browseWebsite (src/browser.js): one browse call, the starts of the
\* browser bridge process, the dependency remediation and the
\* orchestrator's stop-after-browse flag
\* ---------------------------------------------------------------------

RetryDelayMs == 1200
MaxBridgeStarts == 3

LitNoModuleNamed ==
    <<"n", "o", " ", "m", "o", "d", "u", "l", "e", " ", "n", "a", "m", "e", "d", " ">>
LitBrowserUse ==
    <<"b", "r", "o", "w", "s", "e", "r", "_", "u", "s", "e">>
InvalidUrlText ==
    <<"I", "n", "v", "a", "l", "i", "d", " ", "U", "R", "L", ".", " ", "O", "n", "l", "y", " ",
                                        "h", "t", "t", "p", "/", "h", "t", "t", "p", "s",
                                        " ", "U", "R", "L", "s", " ", "a", "r", "e", " ",
                                        "a", "l", "l", "o", "w", "e", "d", ".">>
NoApiKeyText ==
    <<"N", "o", " ", "L", "L", "M", " ", "A", "P", "I", " ", "k", "e", "y", " ", "s", "e", "t",
                                        " ", "f", "o", "r", " ", "b", "r", "o", "w", "s",
                                        "e", "r", "-", "u", "s", "e", " ", "(", "s", "e",
                                        "t", " ", "O", "P", "E", "N", "A", "I", "_", "A",
                                        "P", "I", "_", "K", "E", "Y", " ", "o", "r", " ",
                                        "A", "N", "T", "H", "R", "O", "P", "I", "C", "_",
                                        "A", "P", "I", "_", "K", "E", "Y", ")", ".">>
ParseFailedText ==
    <<"F", "a", "i", "l", "e", "d", " ", "t", "o", " ", "p", "a", "r", "s", "e", " ", "b", "r",
                                        "o", "w", "s", "e", "r", "-", "u", "s", "e", " ",
                                        "o", "u", "t", "p", "u", "t", ".">>
BrowserUseFailedText ==
    <<"b", "r", "o", "w", "s", "e", "r", "-", "u", "s", "e", " ", "f", "a", "i", "l", "e",
                                        "d">>
SpawnFailedText ==
    <<"s", "p", "a", "w", "n", " ", "p", "y", "t", "h", "o", "n", " ", "E", "N", "O", "E", "N",
                                        "T">>
MkdirFailedText ==
    <<"E", "A", "C", "C", "E", "S", ":", " ", "p", "e", "r", "m", "i", "s", "s", "i", "o", "n",
                                        " ", "d", "e", "n", "i", "e", "d", ",", " ", "m",
                                        "k", "d", "i", "r">>

\* what one run of the bridge left: the parsed result (or the result made
\* up when the output did not parse) and the stderr text; `rejected` is a
\* run whose promise rejected (spawn failure or timeout)
RunnerResult(rejected, success, error, raw, stderr) ==
    [rejected |-> rejected, success |-> success, error |-> error,
     raw |-> raw, stderr |-> stderr]

NotEnded == RunnerResult(FALSE, FALSE, <<>>, <<>>, <<>>)

\* /no module named ['"]browser_use['"]/i on result.error of a failed result
IsModuleMissing(result) ==
    /\ ~result.success
    /\ \E i \in 1..Len(result.error) :
          LET q == i + Len(LitNoModuleNamed)
              e == q + 1 + Len(LitBrowserUse)
          IN /\ LitAt(result.error, i, LitNoModuleNamed)
             /\ e <= Len(result.error)
             /\ result.error[q] \in {"'", "\""}
             /\ LitAt(result.error, q + 1, LitBrowserUse)
             /\ result.error[e] \in {"'", "\""}

\* [result.error, result.errors, result.raw, stderr].filter(Boolean).join("\n\n")
RECURSIVE JoinParts(_)
JoinParts(parts) ==
    IF parts = <<>> THEN <<>>
    ELSE IF Head(parts) = <<>> THEN JoinParts(Tail(parts))
    ELSE LET rest == JoinParts(Tail(parts))
         IN IF rest = <<>> THEN Head(parts)
            ELSE Head(parts) \o <<"\n", "\n">> \o rest

ErrorTextOf(result) == JoinParts(<<result.error, result.raw, result.stderr>>)

NeverDisconnected(text) == FALSE

isBrowserDisconnectedError(text) ==
    LET s == ToLower(text)
    IN \/ Contains(s, <<"b", "r", "o", "w", "s", "e", "r", " ", "n", "o", "t", " ", "c", "o", "n", "n", "e", "c",
                                        "t", "e", "d">>)
       \/ Contains(s, <<"n", "o", " ", "b", "r", "o", "w", "s", "e", "r", " ", "i", "s", " ", "o", "p", "e",
                                        "n">>)
       \/ Contains(s, <<"f", "a", "i", "l", "e", "d", " ", "t", "o", " ", "o", "p", "e", "n", " ", "n", "e", "w",
                                        " ", "t", "a", "b">>)
       \/ Contains(s, <<"c", "a", "n", "n", "o", "t", " ", "n", "a", "v", "i", "g", "a", "t", "e", " ", "-", " ",
                                        "b", "r", "o", "w", "s", "e", "r", " ", "n", "o",
                                        "t", " ", "c", "o", "n", "n", "e", "c", "t", "e",
                                        "d">>)
       \/ /\ Contains(s, <<"a", "g", "e", "n", "t", " ", "f", "o", "c", "u", "s", " ", "t", "a", "r", "g", "e",
                                        "t">>)
          /\ Contains(s, <<"d", "e", "t", "a", "c", "h", "e", "d">>)
       \/ Contains(s, <<"t", "a", "r", "g", "e", "t", " ", "d", "e", "t", "a", "c", "h", "e", "d">>)
       \/ Contains(s, <<"r", "e", "c", "e", "i", "v", "e", "d", " ", "d", "u", "p", "l", "i", "c", "a", "t", "e",
                                        " ", "r", "e", "s", "p", "o", "n", "s", "e", " ",
                                        "f", "o", "r", " ", "r", "e", "q", "u", "e", "s",
                                        "t">>)

IsDisconnected(result) ==
    ~result.success /\ isBrowserDisconnectedError(ErrorTextOf(result))

\* ensureBrowserUseReady: the import check passes, or installation is
\* switched off, or the packages are installed and the import is checked
\* again; the check itself can reject
EnsureOutcomes ==
    {"ready", "disabled", "installedOk", "installedStillMissing", "rejected"}
EnsureOk(e) == e \in {"ready", "installedOk"}

RerunWhateverEnsureSays(e) == TRUE

RerunAfterEnsure(e) == EnsureOk(e)

\* the envelope browseWebsite returns
BrowseFailure(text) == [success |-> FALSE, error |-> text]
BrowseSuccess == [success |-> TRUE, error |-> <<>>]
NoBrowseReturn == <<>>

\* lines 196-230: the envelope made from the last result
EnvelopeOf(result) ==
    IF result.success THEN BrowseSuccess
    ELSE BrowseFailure(IF result.error # <<>> THEN result.error
                       ELSE BrowserUseFailedText)

\* ---- inputs ----

BrowseUrls ==
    { <<>>,
      <<" ", " ">>,
      <<"a">>,
      <<"f", "t", "p", ":", "/", "/", "a">>,
      <<"f", "i", "l", "e", ":", "/", "/", "/", "a">>,
      <<"h", "t", "t", "p", ":", "/", "/">>,
      <<"h", "t", "t", "p", ":", "/", "/", "a", " ", "b">>,
      <<"h", "t", "t", "p", ":", "/", "/", "a">>,
      <<"h", "t", "t", "p", ":", "a">>,
      <<"H", "T", "T", "P", "S", ":", "/", "/", "a", "/", "b", " ", "c">> }

BrowseCalls ==
    [url : BrowseUrls, hasKey : BOOLEAN, stopAfterBrowse : BOOLEAN]

RunnerOutcomes ==
    { RunnerResult(FALSE, TRUE, <<>>, <<>>, <<>>),
      RunnerResult(FALSE, TRUE, <<>>, <<>>,
        <<"T", "a", "r", "g", "e", "t", " ", "d", "e", "t", "a", "c", "h", "e", "d">>),
      RunnerResult(FALSE, FALSE,
        <<"M", "o", "d", "u", "l", "e", "N", "o", "t", "F", "o", "u", "n", "d", "E", "r", "r", "o",
                                        "r", ":", " ", "N", "o", " ", "m", "o", "d", "u",
                                        "l", "e", " ", "n", "a", "m", "e", "d", " ", "'",
                                        "b", "r", "o", "w", "s", "e", "r", "_", "u", "s",
                                        "e", "'">>,
        <<>>, <<>>),
      RunnerResult(FALSE, FALSE,
        <<"n", "o", " ", "m", "o", "d", "u", "l", "e", " ", "n", "a", "m", "e", "d", " ", "\"",
                                        "b", "r", "o", "w", "s", "e", "r", "_", "u", "s",
                                        "e", "\"">>,
        <<>>,
        <<"B", "r", "o", "w", "s", "e", "r", " ", "n", "o", "t", " ", "c", "o", "n", "n", "e", "c",
                                        "t", "e", "d">>),
      RunnerResult(FALSE, FALSE,
        <<"N", "o", " ", "m", "o", "d", "u", "l", "e", " ", "n", "a", "m", "e", "d", " ", "'", "p",
                                        "l", "a", "y", "w", "r", "i", "g", "h", "t", "'">>,
        <<>>, <<>>),
      RunnerResult(FALSE, FALSE,
        <<"A", "g", "e", "n", "t", " ", "f", "o", "c", "u", "s", " ", "t", "a", "r", "g", "e", "t",
                                        " ", "w", "a", "s", " ", "d", "e", "t", "a", "c",
                                        "h", "e", "d">>,
        <<>>, <<>>),
      RunnerResult(FALSE, FALSE,
        <<"T", "i", "m", "e", "o", "u", "t", " ", "3", "0", "0", "0", "0", "m", "s", " ", "e", "x",
                                        "c", "e", "e", "d", "e", "d">>,
        <<>>, <<>>),
      RunnerResult(FALSE, FALSE,
        <<"T", "i", "m", "e", "o", "u", "t", " ", "3", "0", "0", "0", "0", "m", "s", " ", "e", "x",
                                        "c", "e", "e", "d", "e", "d">>,
        <<>>,
        <<"N", "o", " ", "b", "r", "o", "w", "s", "e", "r", " ", "i", "s", " ", "o", "p", "e",
                                        "n">>),
      RunnerResult(FALSE, FALSE, ParseFailedText,
        <<"T", "r", "a", "c", "e", "b", "a", "c", "k">>,
        <<>>),
      RunnerResult(FALSE, FALSE, ParseFailedText,
        <<"R", "e", "c", "e", "i", "v", "e", "d", " ", "d", "u", "p", "l", "i", "c", "a", "t", "e",
                                        " ", "r", "e", "s", "p", "o", "n", "s", "e", " ",
                                        "f", "o", "r", " ", "r", "e", "q", "u", "e", "s",
                                        "t">>,
        <<>>),
      RunnerResult(FALSE, FALSE, <<>>, <<>>, <<>>),
      RunnerResult(TRUE, FALSE, SpawnFailedText, <<>>, <<>>) }

\* ---- the call, step by step ----

BridgeStart(ensure, waited) ==
    [ensure |-> ensure, waited |-> waited, ended |-> FALSE, out |-> NotEnded]

LastResult == browseStarts[Len(browseStarts)].out

\* lines 172-204 and 224-230, on the result in hand
AfterModuleCheck(result) ==
    IF IsDisconnected(result)
    THEN /\ browsePc' = "delaying"
         /\ browseReturn' = browseReturn
    ELSE /\ browsePc' = "returned"
         /\ browseReturn' = EnvelopeOf(result)

InitBrowse ==
    /\ OrchestratorUnused /\ SessionsUnused /\ CommandUnused
    /\ BrowseOthersUnused
    /\ browsePc = "called"
    /\ browseCall \in BrowseCalls
    /\ browseStarts = <<>>
    /\ browseEnsure = "none"
    /\ browseReturn = NoBrowseReturn
    /\ browseStop = FALSE

\* lines 41-43
BrowseInvalidUrl ==
    /\ browsePc = "called"
    /\ UNCHANGED <<orchestratorVars, sessionVars, commandVars, browseOthers>>
    /\ browseCall.url = <<>> \/ ~isHttpUrl(browseCall.url)
    /\ browsePc' = "returned"
    /\ browseReturn' = BrowseFailure(InvalidUrlText)
    /\ UNCHANGED <<browseCall, browseStarts, browseEnsure, browseStop>>

\* lines 59-145: the output directory, the provider, the first start
BrowseBegins(mkdirFails) ==
    /\ browsePc = "called"
    /\ UNCHANGED <<orchestratorVars, sessionVars, commandVars, browseOthers>>
    /\ browseCall.url # <<>> /\ isHttpUrl(browseCall.url)
    /\ IF mkdirFails
       THEN /\ browsePc' = "returned"
            /\ browseReturn' = BrowseFailure(MkdirFailedText)
            /\ UNCHANGED browseStarts
       ELSE IF ~browseCall.hasKey
       THEN /\ browsePc' = "returned"
            /\ browseReturn' = BrowseFailure(NoApiKeyText)
            /\ UNCHANGED browseStarts
       ELSE /\ browsePc' = "running"
            /\ browseStarts' = <<BridgeStart("none", 0)>>
            /\ UNCHANGED browseReturn
    /\ UNCHANGED <<browseCall, browseEnsure, browseStop>>

\* the bridge process of the latest start ends: lines 145-169 after the
\* first start, 162-194 after the second, 188-204 after the one that
\* followed the delay
RunnerEnds(out) ==
    /\ browsePc = "running"
    /\ UNCHANGED <<orchestratorVars, sessionVars, commandVars, browseOthers>>
    /\ LET n == Len(browseStarts)
           started == browseStarts[n]
       IN /\ browseStarts' =
                [browseStarts EXCEPT ![n] = [@ EXCEPT !.ended = TRUE, !.out = out]]
          /\ IF out.rejected
             THEN /\ browsePc' = "returned"
                  /\ browseReturn' = BrowseFailure(out.error)
             ELSE IF started.waited > 0
             THEN /\ browsePc' = "returned"
                  /\ browseReturn' = EnvelopeOf(out)
             ELSE IF n = 1 /\ IsModuleMissing(out)
             THEN /\ browsePc' = "ensuring"
                  /\ UNCHANGED browseReturn
             ELSE AfterModuleCheck(out)
    /\ UNCHANGED <<browseCall, browseEnsure, browseStop>>

\* ensureBrowserUseReady ends: lines 160-169
EnsureEnds(e) ==
    /\ browsePc = "ensuring"
    /\ UNCHANGED <<orchestratorVars, sessionVars, commandVars, browseOthers>>
    /\ browseEnsure' = e
    /\ IF e = "rejected"
       THEN /\ browsePc' = "returned"
            /\ browseReturn' = BrowseFailure(SpawnFailedText)
            /\ UNCHANGED browseStarts
       ELSE IF RerunAfterEnsure(e)
       THEN /\ browsePc' = "running"
            /\ browseStarts' = Append(browseStarts, BridgeStart(e, 0))
            /\ UNCHANGED browseReturn
       ELSE /\ AfterModuleCheck(LastResult)
            /\ UNCHANGED browseStarts
    /\ UNCHANGED <<browseCall, browseStop>>

\* lines 183-188: the notice, the delay, the start that follows it
DelayEnds ==
    /\ browsePc = "delaying"
    /\ UNCHANGED <<orchestratorVars, sessionVars, commandVars, browseOthers>>
    /\ browsePc' = "running"
    /\ browseStarts' = Append(browseStarts, BridgeStart(browseEnsure, RetryDelayMs))
    /\ UNCHANGED <<browseCall, browseEnsure, browseReturn, browseStop>>

\* src/telegram.js 323-332: the orchestrator takes the envelope
BrowseDispatched ==
    /\ browsePc = "returned"
    /\ UNCHANGED <<orchestratorVars, sessionVars, commandVars, browseOthers>>
    /\ browsePc' = "dispatched"
    /\ browseStop' = (browseCall.stopAfterBrowse /\ browseReturn.success)
    /\ UNCHANGED <<browseCall, browseStarts, browseEnsure, browseReturn>>

NextBrowse ==
    \/ BrowseInvalidUrl
    \/ \E mkdirFails \in BOOLEAN : BrowseBegins(mkdirFails)
    \/ \E out \in RunnerOutcomes : RunnerEnds(out)
    \/ \E e \in EnsureOutcomes : EnsureEnds(e)
    \/ DelayEnds
    \/ BrowseDispatched

SpecBrowse == InitBrowse /\ [][NextBrowse]_vars

TypeOKBrowse ==
    /\ browsePc \in {"called", "running", "ensuring", "delaying", "returned", "dispatched"}
    /\ browseCall \in BrowseCalls
    /\ Len(browseStarts) <= MaxBridgeStarts
    /\ browseEnsure \in EnsureOutcomes \cup {"none"}
    /\ browseStop \in BOOLEAN

\* ---- C26 ----

ModuleMissingText(text) ==
    \E quote \in {"'", "\""} :
        Contains(ToLower(text), LitNoModuleNamed \o <<quote>> \o LitBrowserUse \o <<quote>>)

DisconnectMarkers ==
    { <<"b", "r", "o", "w", "s", "e", "r", " ", "n", "o", "t", " ", "c", "o", "n", "n", "e", "c",
                                        "t", "e", "d">>,
      <<"n", "o", " ", "b", "r", "o", "w", "s", "e", "r", " ", "i", "s", " ", "o", "p", "e",
                                        "n">>,
      <<"f", "a", "i", "l", "e", "d", " ", "t", "o", " ", "o", "p", "e", "n", " ", "n", "e", "w",
                                        " ", "t", "a", "b">>,
      <<"t", "a", "r", "g", "e", "t", " ", "d", "e", "t", "a", "c", "h", "e", "d">>,
      <<"r", "e", "c", "e", "i", "v", "e", "d", " ", "d", "u", "p", "l", "i", "c", "a", "t", "e",
                                        " ", "r", "e", "s", "p", "o", "n", "s", "e", " ",
                                        "f", "o", "r", " ", "r", "e", "q", "u", "e", "s",
                                        "t">> }

DisconnectedText(text) ==
    LET s == ToLower(text)
    IN \/ \E m \in DisconnectMarkers : Contains(s, m)
       \/ Contains(s, <<"a", "g", "e", "n", "t", " ", "f", "o", "c", "u", "s", " ", "t", "a", "r", "g", "e",
                                        "t">>) /\ Contains(s, <<"d", "e", "t", "a", "c", "h", "e", "d">>)

\* the start number k of the bridge follows a failed run that reported the
\* missing module, after a remediation that reported success
StartedAfterRemediation(k) ==
    LET prev == browseStarts[k - 1]
    IN /\ k = 2
       /\ prev.ended /\ ~prev.out.rejected /\ ~prev.out.success
       /\ ModuleMissingText(prev.out.error)
       /\ browseStarts[k].ensure \in {"ready", "installedOk"}
       /\ browseStarts[k].waited = 0

\* the start number k of the bridge follows a failed run that reported a
\* lost browser, after the fixed delay, and no earlier start did
StartedAfterDisconnect(k) ==
    LET prev == browseStarts[k - 1]
    IN /\ prev.ended /\ ~prev.out.rejected /\ ~prev.out.success
       /\ \/ DisconnectedText(prev.out.error)
          \/ DisconnectedText(prev.out.raw)
          \/ DisconnectedText(prev.out.stderr)
       /\ browseStarts[k].waited = RetryDelayMs
       /\ \A j \in 1..(k - 1) : browseStarts[j].waited = 0

\* C26: in one browse call the bridge is started again only after a failed
\* run that reported the missing module, once and only when the remediation
\* reported success, or after a failed run that reported a lost browser,
\* once and after the fixed delay; it is started at most 3 times
C26_BridgeRerunOnlyAfterRecoverable ==
    /\ Len(browseStarts) <= MaxBridgeStarts
    /\ \A k \in 2..Len(browseStarts) :
          StartedAfterRemediation(k) \/ StartedAfterDisconnect(k)

\* a call whose bridge was started three times: after the missing module
\* and a successful remediation, then after a lost browser
C26_Witness ==
    /\ browsePc = "dispatched"
    /\ Len(browseStarts) = 3
    /\ StartedAfterRemediation(2)
    /\ StartedAfterDisconnect(3)
    /\ browseEnsure = "installedOk"

\* ---- C29 ----

NotHttpUrls ==
    { <<>>,
      <<" ", " ">>,
      <<"a">>,
      <<"f", "t", "p", ":", "/", "/", "a">>,
      <<"f", "i", "l", "e", ":", "/", "/", "/", "a">>,
      <<"h", "t", "t", "p", ":", "/", "/">>,
      <<"h", "t", "t", "p", ":", "/", "/", "a", " ", "b">> }

\* C29: a browse call whose url is missing or is no http/https URL returns
\* the invalid-URL failure, starts neither the bridge nor an installation,
\* and does not set the orchestrator's stop-after-browse flag
C29_InvalidUrlRefusedBeforeAnyStart ==
    browseCall.url \in NotHttpUrls =>
        /\ browseStarts = <<>>
        /\ browseEnsure = "none"
        /\ ~browseStop
        /\ browsePc \in {"called", "returned", "dispatched"}
        /\ browsePc # "called" =>
              /\ ~browseReturn.success
              /\ browseReturn.error = InvalidUrlText

\* a call with a file URL and the stop-after-browse setting on, taken back
\* by the orchestrator
C29_Witness ==
    /\ browsePc = "dispatched"
    /\ browseCall.url = <<"f", "i", "l", "e", ":", "/", "/", "/", "a">>
    /\ browseCall.hasKey /\ browseCall.stopAfterBrowse
    /\ browseReturn = BrowseFailure(InvalidUrlText)

\* ---- C28 ----

\* what a command text can show of the wish to open a browser window: an
\* http(s) address, a new-window or app flag, the browser named by an
\* absolute path, or the launch word in front
ShowsAddress(c) == MatchesUrl(c)
ShowsWindowFlag(c) ==
    Contains(ToLower(c), LitNewWindow) \/ Contains(ToLower(c), LitApp)
NamesBrowserByAbsolutePath(c) ==
    \E i \in 1..Len(c), d \in 1..Len(c) :
        /\ CaseLitAt(c, i + 1, <<":", Backslash>>)
        /\ d >= i + 3
        /\ LitAt(c, d, LitChromeExe)
BeginsWithStart(c) == LitAt(Trim(c), 1, LitStart)
ShowsLaunchIntent(c) ==
    \/ ShowsAddress(c)
    \/ ShowsWindowFlag(c)
    \/ NamesBrowserByAbsolutePath(c)
    \/ BeginsWithStart(c)

\* C28: under cmd, executeCommand goes to the detached launch of the
\* browser only for a command text that shows the wish to open a browser
\* window; a text that names the browser executable without an address or
\* a window flag, like chrome.exe --version, is left to the interpreter
C28_DetachedLaunchOnlyOnIntent ==
    (Returned /\ cmdResult.detached) => ShowsLaunchIntent(cmdCall.command)

\* ---------------------------------------------------------------------
\* The message handler and the list of authorized senders
\* (src/telegram.js 16-21, 475-551)
\* ---------------------------------------------------------------------

MaxMessages == 2

\* ids.split(",")
RECURSIVE SplitOnComma(_)
SplitOnComma(s) ==
    IF \E i \in 1..Len(s) : s[i] = ","
    THEN LET i == CHOOSE k \in 1..Len(s) :
                    s[k] = "," /\ \A j \in 1..(k - 1) : s[j] # ","
         IN <<SubSeq(s, 1, i - 1)>> \o SplitOnComma(SubSeq(s, i + 1, Len(s)))
    ELSE <<s>>

SingleOnly(env) ==
    LET single == Trim(env.single)
    IN IF single # <<>> THEN <<single>> ELSE <<>>

\* lines 16-21
authorizedUserIds(env) ==
    LET ids == Trim(env.ids)
        items == SplitOnComma(ids)
        NonEmpty(x) == x # <<>>
    IN IF ids # <<>>
       THEN SelectSeq([k \in 1..Len(items) |-> Trim(items[k])], NonEmpty)
       ELSE SingleOnly(env)

AdmittedWhenListed(list, userId) ==
    \E k \in 1..Len(list) : list[k] = userId

\* line 481, negated: the sender goes on to the handlers
Admitted(list, userId) ==
    ~(Len(list) > 0 /\ ~AdmittedWhenListed(list, userId))

\* ---- inputs ----
AuthIdsSettings ==
    { <<>>,
      <<"1", "2">>,
      <<"1", "2", ",", "3">>,
      <<" ", "1", "2", " ", ",", " ", "3", " ">>,
      <<",">> }
AuthSingleSettings ==
    { <<>>,
      <<"1", "2">>,
      <<" ", "2", " ">> }
AuthEnvs == [ids : AuthIdsSettings, single : AuthSingleSettings]
SenderIds == { <<"1", "2">>, <<"1">>, <<"2">>, <<"3">> }
MessageKinds ==
    {"start", "text", "blankText", "photo", "voice", "audio",
     "imageDocument", "other"}

\* what handleUserText (lines 407-419) does: the service is called, tools
\* may run, and the history of the chat is stored unless the run threw
UserTextEffects ==
    { {"serviceCall", "storeWrite"},
      {"serviceCall", "toolExecution", "storeWrite"},
      {"serviceCall"} }
\* handlePhotoMessage and handleVoiceMessage (lines 420-473): the file is
\* downloaded and analysed, and the text made of it goes to handleUserText
\* when the analysis succeeded
MediaEffects ==
    { {"download"}, {"download", "analysis"} }
      \cup { {"download", "analysis"} \cup e : e \in UserTextEffects }

\* the replies and effects one message can have, lines 481-550
AuthOutcomes(list, msg) ==
    IF ~Admitted(list, msg.userId)
    THEN { [reply |-> "unauthorized", effects |-> {}] }
    ELSE IF msg.kind = "start"
    THEN { [reply |-> "hello", effects |-> {}] }
    ELSE IF msg.kind = "text"
    THEN { [reply |-> "processing", effects |-> e] : e \in UserTextEffects }
    ELSE IF msg.kind \in {"photo", "voice", "audio", "imageDocument"}
    THEN { [reply |-> "media", effects |-> e] : e \in MediaEffects }
    ELSE { [reply |-> "unsupported", effects |-> {}] }

InitAuth ==
    /\ OrchestratorUnused /\ SessionsUnused /\ CommandUnused
    /\ AuthOthersUnused
    /\ authEnv \in AuthEnvs
    /\ authList = authorizedUserIds(authEnv)
    /\ authLog = <<>>

\* bot.on("message", ...)
MessageArrives(msg, handled) ==
    /\ Len(authLog) < MaxMessages
    /\ UNCHANGED <<orchestratorVars, sessionVars, commandVars, authOthers>>
    /\ handled \in AuthOutcomes(authList, msg)
    /\ authLog' = Append(authLog, [userId |-> msg.userId, kind |-> msg.kind,
                                   reply |-> handled.reply,
                                   effects |-> handled.effects])
    /\ UNCHANGED <<authEnv, authList>>

NextAuth ==
    \E msg \in [userId : SenderIds, kind : MessageKinds] :
        \E handled \in AuthOutcomes(authList, msg) :
            MessageArrives(msg, handled)

SpecAuth == InitAuth /\ [][NextAuth]_vars

TypeOKAuth ==
    /\ authEnv \in AuthEnvs
    /\ Len(authLog) <= MaxMessages
    /\ \A k \in 1..Len(authList) : authList[k] # <<>>

\* ---- C27 ----

\* the ids the configuration names: the items of AUTHORIZED_USER_IDS when
\* it is set, else the one of AUTHORIZED_USER_ID
Whitelist(env) ==
    { id \in SenderIds :
        IF Trim(env.ids) # <<>>
        THEN \E k \in 1..Len(SplitOnComma(env.ids)) :
                Trim(SplitOnComma(env.ids)[k]) = id
        ELSE Trim(env.single) = id }

Served(entry) ==
    entry.effects \cap {"serviceCall", "toolExecution", "storeWrite"} # {}

\* C27: under every setting of AUTHORIZED_USER_IDS / AUTHORIZED_USER_ID,
\* none set included, a message of a sender who is not in the configured
\* list causes no service call, no tool execution and no write to the
\* session store, and is answered with the unauthorized reply only
C27_UnlistedSenderNeverServed ==
    \A k \in 1..Len(authLog) :
        authLog[k].userId \notin Whitelist(authEnv) =>
            /\ ~Served(authLog[k])
            /\ authLog[k].reply = "unauthorized"

\* with at least one id in the list, the senders outside it are kept out
NonEmptyListKeepsOthersOut ==
    \A k \in 1..Len(authLog) :
        (authList # <<>> /\ authLog[k].userId \notin Whitelist(authEnv)) =>
            /\ authLog[k].effects = {}
            /\ authLog[k].reply = "unauthorized"

\* ---------------------------------------------------------------------
\* spawnWithStdin (src/utils.js 6-46): one call, from the promise it
\* returns to the events of the child and of the kill timer
\* ---------------------------------------------------------------------

MaxChunks == 2

ExitCodes == {"0", "1", "null"}

\* the promise: pending, or settled with what it was settled with
PromiseOf(state, why, stdout, stderr, exitCode) ==
    [state |-> state, why |-> why, stdout |-> stdout, stderr |-> stderr,
     exitCode |-> exitCode]
Pending == PromiseOf("pending", "none", <<>>, <<>>, "null")
RejectedWith(why) == PromiseOf("rejected", why, <<>>, <<>>, "null")
ResolvedWith(stdout, stderr, code) ==
    PromiseOf("resolved", "close", stdout, stderr, code)

SettleAgain(p, with) == with

\* resolve(...) and reject(...) of line 7: the first call settles the
\* promise, the later ones do nothing
Settle(p, with) == IF p.state = "pending" THEN with ELSE p

\* clearTimeout(killTimer)
ClearTimer(t) == IF t = "armed" THEN "cleared" ELSE t

\* the state after lines 7-44 have run: spawn() threw and the executor
\* rejected the promise, or the child exists, the listeners are set and the
\* timer is armed
InitSpawn ==
    /\ OrchestratorUnused /\ SessionsUnused /\ CommandUnused
    /\ SpawnOthersUnused
    /\ \/ /\ spPromise = RejectedWith("threw")
          /\ spTimer = "unset"
          /\ spOpen = FALSE
       \/ /\ spPromise = Pending
          /\ spTimer = "armed"
          /\ spOpen = TRUE
    /\ spStdout = <<>>
    /\ spStderr = <<>>
    /\ spFinished = FALSE
    /\ spEvents = <<>>
    /\ spKills = 0

\* line 24
StdoutData(d) ==
    /\ spOpen /\ Len(spStdout) < MaxChunks
    /\ UNCHANGED <<orchestratorVars, sessionVars, commandVars, spawnOthers>>
    /\ spStdout' = spStdout \o d
    /\ UNCHANGED <<spPromise, spStderr, spFinished, spTimer, spEvents, spKills, spOpen>>

\* line 25
StderrData(d) ==
    /\ spOpen /\ Len(spStderr) < MaxChunks
    /\ UNCHANGED <<orchestratorVars, sessionVars, commandVars, spawnOthers>>
    /\ spStderr' = spStderr \o d
    /\ UNCHANGED <<spPromise, spStdout, spFinished, spTimer, spEvents, spKills, spOpen>>

\* lines 27-31: the child's error event
ErrorEvent ==
    /\ spOpen
    /\ UNCHANGED <<orchestratorVars, sessionVars, commandVars, spawnOthers>>
    /\ \A k \in 1..Len(spEvents) : spEvents[k] # "error"
    /\ spTimer' = ClearTimer(spTimer)
    /\ spFinished' = TRUE
    /\ spPromise' = Settle(spPromise, RejectedWith("error"))
    /\ spEvents' = Append(spEvents, "error")
    /\ UNCHANGED <<spStdout, spStderr, spKills, spOpen>>

\* lines 33-37: the child's close event, the last one it emits
CloseEvent(code) ==
    /\ spOpen
    /\ UNCHANGED <<orchestratorVars, sessionVars, commandVars, spawnOthers>>
    /\ spTimer' = ClearTimer(spTimer)
    /\ spFinished' = TRUE
    /\ spPromise' = Settle(spPromise, ResolvedWith(spStdout, spStderr, code))
    /\ spEvents' = Append(spEvents, "close")
    /\ spOpen' = FALSE
    /\ UNCHANGED <<spStdout, spStderr, spKills>>

\* lines 18-22: the callback of killTimer
TimerFires ==
    /\ spTimer = "armed"
    /\ UNCHANGED <<orchestratorVars, sessionVars, commandVars, spawnOthers>>
    /\ spTimer' = "fired"
    /\ IF spFinished
       THEN UNCHANGED <<spPromise, spKills, spEvents>>
       ELSE /\ spKills' = spKills + 1
            /\ spPromise' = Settle(spPromise, RejectedWith("timeout"))
            /\ spEvents' = Append(spEvents, "timeout")
    /\ UNCHANGED <<spStdout, spStderr, spFinished, spOpen>>

NextSpawn ==
    \/ \E d \in {<<"a">>, <<"b">>} : StdoutData(d)
    \/ \E d \in {<<"e">>} : StderrData(d)
    \/ ErrorEvent
    \/ \E code \in ExitCodes : CloseEvent(code)
    \/ TimerFires

\* the event loop runs the callback of a timer that is due
SpecSpawn == InitSpawn /\ [][NextSpawn]_vars /\ WF_vars(TimerFires)

TypeOKSpawn ==
    /\ spPromise.state \in {"pending", "resolved", "rejected"}
    /\ spTimer \in {"unset", "armed", "cleared", "fired"}
    /\ Len(spStdout) <= MaxChunks /\ Len(spStderr) <= MaxChunks
    /\ spKills <= 1
    /\ spTimer = "armed" => ~spFinished

\* ---- C30 ----

FirstEvent == IF spEvents = <<>> THEN "none" ELSE spEvents[1]

\* what the promise was settled with is what the first event calls for
SettledByFirstEvent ==
    /\ spPromise.state = "pending" => spEvents = <<>> /\ spTimer = "armed"
    /\ spPromise.state = "resolved" =>
          /\ FirstEvent = "close"
          /\ spPromise.stdout = spStdout /\ spPromise.stderr = spStderr
          /\ spPromise.exitCode \in ExitCodes
          /\ spKills = 0
    /\ (spPromise.state = "rejected" /\ spPromise.why = "error") =>
          FirstEvent = "error" /\ spKills = 0
    /\ (spPromise.state = "rejected" /\ spPromise.why = "timeout") =>
          FirstEvent = "timeout" /\ spKills = 1
    /\ (spPromise.state = "rejected" /\ spPromise.why = "threw") =>
          spEvents = <<>> /\ spKills = 0

\* the timer does not fire after a close or an error event
NoTimeoutAfterCloseOrError ==
    \A i, j \in 1..Len(spEvents) :
        (i < j /\ spEvents[i] \in {"close", "error"}) => spEvents[j] # "timeout"

SettledForGood ==
    spPromise.state # "pending" => spPromise' = spPromise

\* C30: a call of spawnWithStdin settles once and always eventually: it
\* resolves with the captured output and the exit code when the child
\* closes first, rejects when the spawn fails first, and rejects after a
\* kill when the timer fires first; the timer does not fire after a close
\* or error event, and no later event changes a settled promise
C30_SettlesOnceAndEventually ==
    /\ [](SettledByFirstEvent /\ NoTimeoutAfterCloseOrError)
    /\ [][SettledForGood]_vars
    /\ <>(spPromise.state # "pending")

\* the timer fired first, the child was killed, and its output and close
\* event came afterwards
C30_Witness ==
    /\ spPromise = RejectedWith("timeout")
    /\ spEvents = <<"timeout", "error", "close">>
    /\ spKills = 1 /\ spFinished
    /\ spStdout # <<>>

(***************************************************************************)
(* The dedup set of a run (src/telegram.js 242-245, 291-327).              *)
(***************************************************************************)
\* the fingerprints of the calls among the first n of the run's log that
\* were executed and returned success
SucceededFps(n) ==
    { callLog[i].fp : i \in { j \in 1..n : /\ callLog[j].how = "dispatched"
                                           /\ callLog[j].success
                                           /\ callLog[j].fp # NullFp } }

\* call k of the log repeats the fingerprint of an earlier call, and no
\* call with that fingerprint has succeeded before it
RepeatsFailedCall(k) ==
    /\ callLog[k].fp # NullFp
    /\ callLog[k].fp \notin SucceededFps(k - 1)
    /\ \E j \in 1..(k - 1) : callLog[j].fp = callLog[k].fp /\ callLog[j].how = "dispatched"

DedupSetIsSucceededCalls ==
    /\ executedBrowserActions = SucceededFps(Len(callLog))
    /\ pc \in {"awaitFirst", "awaitFirstFallback"} => executedBrowserActions = {}
    /\ \A k \in 1..Len(callLog) :
          /\ callLog[k].how = "deduped" => callLog[k].fp \in SucceededFps(k - 1)
          /\ callLog[k].fp = NullFp => callLog[k].how # "deduped"

\* C31 as stated: the dedup set holds exactly the fingerprints of the calls
\* executed with success earlier in the run and is empty when a run starts;
\* a call without fingerprint is never deduplicated; and a fingerprinted
\* call that failed is executed again when it is requested again.
C31_FailedCallExecutedAgain ==
    /\ DedupSetIsSucceededCalls
    /\ \A k \in 1..Len(callLog) :
          RepeatsFailedCall(k) => callLog[k].how = "dispatched"

\* C31, amended: the same bookkeeping; a fingerprinted call that failed is
\* not deduplicated when it is requested again: it is executed again,
\* unless step-by-step mode defers it because a call of the same response
\* was executed already.
C31_FailedCallNotDeduped ==
    /\ DedupSetIsSucceededCalls
    /\ \A k \in 1..Len(callLog) :
          RepeatsFailedCall(k) =>
              \/ callLog[k].how = "dispatched"
              \/ /\ callLog[k].how = "deferred"
                 /\ STEP_CONFIRM
                 /\ k > 1 /\ callLog[k - 1].how \in {"dispatched", "deferred"}

\* a fingerprinted call failed, was executed again with success in a later
\* response, and the third request was deduplicated
C31_Witness ==
    /\ Len(callLog) = 3
    /\ callLog[1].fp # NullFp
    /\ callLog[2].fp = callLog[1].fp /\ callLog[3].fp = callLog[1].fp
    /\ callLog[1].how = "dispatched" /\ ~callLog[1].success
    /\ callLog[2].how = "dispatched" /\ callLog[2].success
    /\ callLog[3].how = "deduped"
    /\ executedBrowserActions = {callLog[1].fp}

\* ---------------------------------------------------------------------
\* runHealer (src/utils.js 1650-1699): the invocations made in one
\* process, the child of each, its timer, and the flag they share
\* ---------------------------------------------------------------------

MaxInvocations == 3

\* the envelope an invocation resolves with
HealerEnvelope(success, skipped, why, exitCode) ==
    [success |-> success, skipped |-> skipped, why |-> why, exitCode |-> exitCode]
HealerSkipped == HealerEnvelope(TRUE, TRUE, "skipped", "none")
HealerNotFound == HealerEnvelope(FALSE, FALSE, "notFound", "none")
HealerTimedOut == HealerEnvelope(FALSE, FALSE, "timeout", "none")
HealerSpawnError == HealerEnvelope(FALSE, FALSE, "error", "none")
HealerClosed(code) == HealerEnvelope(code = "0", FALSE, "close", code)

\* the promise of an invocation
HealerPending == [state |-> "pending", value |-> HealerEnvelope(FALSE, FALSE, "none", "none")]
HealerResolved(envelope) == [state |-> "resolved", value |-> envelope]

\* a callback that resolves without touching the flag
FlagLeftAlone(flag) == flag

\* HEALER_RAN_THIS_PROCESS.ran = true
FlagSet(flag) == [flag EXCEPT !.ran = TRUE]

\* an invocation that spawned heal.ps1 has resolved
SpawnedHasResolved(calls) ==
    \E j \in 1..Len(calls) : calls[j].spawned /\ calls[j].promise.state = "resolved"

\* an invocation: its promise, whether it spawned the script, the timer,
\* the events of its child in order, the kills sent, and what it found when
\* it was made
HealerCall(promise, spawned, timer) ==
    [promise |-> promise, spawned |-> spawned, timer |-> timer,
     open |-> spawned, events |-> <<>>, kills |-> 0,
     afterResolved |-> SpawnedHasResolved(hlCalls),
     flagAtReturn |-> hlFlag.ran]

InitHealer ==
    /\ OrchestratorUnused /\ SessionsUnused /\ CommandUnused
    /\ HealerOthersUnused
    /\ hlFlag = [ran |-> FALSE]
    /\ hlCalls = <<>>
    /\ hlSpawns = 0

\* lines 1650-1672: the call, up to the promise it returns
HealerInvoked(healPathExists) ==
    /\ Len(hlCalls) < MaxInvocations
    /\ UNCHANGED <<orchestratorVars, sessionVars, commandVars, healerOthers>>
    /\ IF hlFlag.ran
       THEN /\ hlCalls' = Append(hlCalls,
                            HealerCall(HealerResolved(HealerSkipped), FALSE, "unset"))
            /\ UNCHANGED hlSpawns
       ELSE IF ~healPathExists
       THEN /\ hlCalls' = Append(hlCalls,
                            HealerCall(HealerResolved(HealerNotFound), FALSE, "unset"))
            /\ UNCHANGED hlSpawns
       ELSE /\ hlCalls' = Append(hlCalls, HealerCall(HealerPending, TRUE, "armed"))
            /\ hlSpawns' = hlSpawns + 1
    /\ UNCHANGED hlFlag

\* lines 1674-1682: the callback of the timer of invocation i
HealerTimerFires(i) ==
    /\ i \in 1..Len(hlCalls) /\ hlCalls[i].timer = "armed"
    /\ UNCHANGED <<orchestratorVars, sessionVars, commandVars, healerOthers>>
    /\ hlFlag' = FlagSet(hlFlag)
    /\ hlCalls' = [hlCalls EXCEPT ![i] =
            [@ EXCEPT !.timer = "fired",
                      !.kills = @ + 1,
                      !.events = Append(@, "timeout"),
                      !.promise = Settle(@, HealerResolved(HealerTimedOut))]]
    /\ UNCHANGED hlSpawns

\* lines 1683-1692: the close event of the child of invocation i
HealerChildCloses(i, code) ==
    /\ i \in 1..Len(hlCalls) /\ hlCalls[i].open
    /\ UNCHANGED <<orchestratorVars, sessionVars, commandVars, healerOthers>>
    /\ hlFlag' = FlagSet(hlFlag)
    /\ hlCalls' = [hlCalls EXCEPT ![i] =
            [@ EXCEPT !.timer = ClearTimer(@),
                      !.open = FALSE,
                      !.events = Append(@, "close"),
                      !.promise = Settle(@, HealerResolved(HealerClosed(code)))]]
    /\ UNCHANGED hlSpawns

\* lines 1693-1697: the error event of the child of invocation i
HealerChildErrors(i) ==
    /\ i \in 1..Len(hlCalls) /\ hlCalls[i].open
    /\ UNCHANGED <<orchestratorVars, sessionVars, commandVars, healerOthers>>
    /\ \A k \in 1..Len(hlCalls[i].events) : hlCalls[i].events[k] # "error"
    /\ hlFlag' = FlagSet(hlFlag)
    /\ hlCalls' = [hlCalls EXCEPT ![i] =
            [@ EXCEPT !.timer = ClearTimer(@),
                      !.events = Append(@, "error"),
                      !.promise = Settle(@, HealerResolved(HealerSpawnError))]]
    /\ UNCHANGED hlSpawns

NextHealer ==
    \/ \E healPathExists \in BOOLEAN : HealerInvoked(healPathExists)
    \/ \E i \in 1..MaxInvocations : HealerTimerFires(i)
    \/ \E i \in 1..MaxInvocations, code \in ExitCodes : HealerChildCloses(i, code)
    \/ \E i \in 1..MaxInvocations : HealerChildErrors(i)

\* the event loop runs the callback of a timer that is due
SpecHealer ==
    InitHealer /\ [][NextHealer]_vars
        /\ WF_vars(\E i \in 1..MaxInvocations : HealerTimerFires(i))

TypeOKHealer ==
    /\ hlFlag.ran \in BOOLEAN
    /\ Len(hlCalls) <= MaxInvocations
    /\ hlSpawns \in 0..MaxInvocations

\* ---- C32 ----

\* what an invocation resolved with is what came first
HealerEnvelopeFits(call) ==
    LET first == IF call.events = <<>> THEN "none" ELSE call.events[1]
        v == call.promise.value
    IN /\ call.promise.state = "pending" =>
             call.spawned /\ call.events = <<>> /\ call.timer = "armed"
       /\ call.promise.state = "resolved" =>
             /\ ~call.spawned => v \in {HealerSkipped, HealerNotFound}
             /\ call.spawned =>
                   /\ v.why = first /\ first \in {"close", "error", "timeout"}
                   /\ ~v.skipped
                   /\ v.success = (first = "close" /\ v.exitCode = "0")
                   /\ (first = "timeout") => call.kills = 1
             /\ v = HealerNotFound => ~call.flagAtReturn

HealerInvocationsFit ==
    /\ \A i \in 1..Len(hlCalls) :
          /\ HealerEnvelopeFits(hlCalls[i])
          /\ hlCalls[i].afterResolved =>
                /\ ~hlCalls[i].spawned
                /\ hlCalls[i].promise = HealerResolved(HealerSkipped)
    /\ hlSpawns = Cardinality({i \in 1..Len(hlCalls) : hlCalls[i].spawned})
    /\ SpawnedHasResolved(hlCalls) => hlFlag.ran

\* a step leaves every resolved invocation as it resolved, and an
\* invocation that finds no heal.ps1 leaves the flag as it was
HealerStep ==
    /\ \A i \in 1..Len(hlCalls) :
          hlCalls[i].promise.state = "resolved" =>
              hlCalls'[i].promise = hlCalls[i].promise
    /\ (Len(hlCalls') > Len(hlCalls)) => hlFlag' = hlFlag

AllHealerCallsResolved ==
    \A i \in 1..Len(hlCalls) : hlCalls[i].promise.state = "resolved"

RetryOptions ==
    [retries : {0, 1, 5}, baseDelayMs : {0, 500}, maxDelayMs : {1200, 15000}]

NothingThrown == TransportError("none", <<>>, "")

\* withRetries(fn, options) is called and the first call of fn is under way
InitRetry ==
    /\ OrchestratorUnused /\ SessionsUnused /\ CommandUnused
    /\ RetryOthersUnused
    /\ rtOptions \in RetryOptions
    /\ rtPc = "calling"
    /\ rtAttempt = 0
    /\ rtCalls = <<>>
    /\ rtDelays = <<>>
    /\ rtThrown = NothingThrown

\* line 90: return await fn()
FnResolves ==
    /\ rtPc = "calling"
    /\ UNCHANGED <<orchestratorVars, sessionVars, commandVars, retryOthers>>
    /\ rtCalls' = Append(rtCalls, Delivered)
    /\ rtPc' = "returned"
    /\ UNCHANGED <<rtOptions, rtAttempt, rtDelays, rtThrown>>

\* lines 91-94: fn() rejects with e
FnRejects(e) ==
    /\ rtPc = "calling"
    /\ UNCHANGED <<orchestratorVars, sessionVars, commandVars, retryOthers>>
    /\ rtCalls' = Append(rtCalls, Rejected(e))
    /\ rtAttempt' = rtAttempt + 1
    /\ IF GivesUp(e, rtAttempt + 1, rtOptions.retries)
       THEN /\ rtThrown' = e
            /\ rtPc' = "threw"
            /\ UNCHANGED rtDelays
       ELSE /\ rtDelays' = Append(rtDelays,
                              RetryDelay(rtOptions.baseDelayMs, rtOptions.maxDelayMs,
                                         rtAttempt + 1))
            /\ rtPc' = "sleeping"
            /\ UNCHANGED rtThrown
    /\ UNCHANGED rtOptions

\* line 95: await sleep(delay) ends, and fn is called again
SleepEnds ==
    /\ rtPc = "sleeping"
    /\ UNCHANGED <<orchestratorVars, sessionVars, commandVars, retryOthers>>
    /\ rtPc' = "calling"
    /\ UNCHANGED <<rtOptions, rtAttempt, rtCalls, rtDelays, rtThrown>>

NextRetry ==
    \/ FnResolves
    \/ \E e \in TransportErrors : FnRejects(e)
    \/ SleepEnds

SpecRetry == InitRetry /\ [][NextRetry]_vars

TypeOKRetry ==
    /\ rtOptions \in RetryOptions
    /\ rtPc \in {"calling", "sleeping", "returned", "threw"}
    /\ rtAttempt \in 0..(rtOptions.retries + 1)

\* ---- C33 ----

\* C33: withRetries calls fn at most retries + 1 times, stops at the first
\* success, rethrows at once an error that is not a transient network
\* error, and rethrows the last error when the retries are used up; the
\* delay before retry k is min(maxDelayMs, baseDelayMs * 2^(k-1)), so the
\* delays do not decrease and do not exceed maxDelayMs
C33_BoundedRetriesAndDelays ==
    LET n == Len(rtCalls)
        retries == rtOptions.retries
    IN /\ n <= retries + 1
       /\ \A i \in 1..(n - 1) : EndedTransient(rtCalls[i])
       /\ (n > 0 /\ rtCalls[n].ok) => rtPc = "returned"
       /\ rtPc = "returned" <=> (n > 0 /\ rtCalls[n].ok)
       /\ (n > 0 /\ ~rtCalls[n].ok /\ ~EndedTransient(rtCalls[n])) =>
             rtPc = "threw" /\ rtThrown = rtCalls[n].err
       /\ (n = retries + 1 /\ ~rtCalls[n].ok) =>
             rtPc = "threw" /\ rtThrown = rtCalls[n].err
       /\ rtPc = "threw" =>
             /\ ~rtCalls[n].ok
             /\ ~EndedTransient(rtCalls[n]) \/ n = retries + 1
       /\ rtPc # "threw" => rtThrown = NothingThrown
       /\ Len(rtDelays) = IF rtPc \in {"returned", "threw"} THEN n - 1 ELSE n
       /\ \A k \in 1..Len(rtDelays) :
             /\ LET doubled == rtOptions.baseDelayMs * (2 ^ (k - 1))
                IN rtDelays[k] = IF doubled < rtOptions.maxDelayMs
                                 THEN doubled ELSE rtOptions.maxDelayMs
             /\ rtDelays[k] <= rtOptions.maxDelayMs
             /\ k > 1 => rtDelays[k - 1] <= rtDelays[k]

\* six calls under the defaults' five retries with a low ceiling: the last
\* delays are the ceiling, and the sixth error is rethrown
C33_Witness ==
    /\ rtOptions = [retries |-> 5, baseDelayMs |-> 500, maxDelayMs |-> 1200]
    /\ rtPc = "threw"
    /\ Len(rtCalls) = 6
    /\ EndedTransient(rtCalls[6])
    /\ rtDelays = <<500, 1000, 1200, 1200, 1200>>

\* ---- C34 ----

HasScript == Trim(cmdCall.script) # <<>>
HasCommand == Trim(cmdCall.command) # <<>>
\* the same call with no command given
ScriptAlone == [cmdCall EXCEPT !.command = <<>>]

\* C34: executeCommand runs at most one of script and command: with neither
\* a non-blank script nor a non-blank command it returns the failure
\* "No command/script provided." and spawns no process; with both given
\* only the script is run, and the shell, the extension of the script file
\* and the result are those of the same call without the command
C34_AtMostOneOfScriptAndCommand ==
    Returned =>
       /\ (~HasScript /\ ~HasCommand) =>
             /\ RefusedWithoutSpawn
             /\ cmdResult.error = NoCommandText
             /\ cmdResult.ran = "none"
       /\ (HasScript /\ HasCommand) =>
             /\ cmdResult.ran = "script"
             /\ ~cmdResult.detached
             /\ \A os \in ScriptOutcomes :
                   executeCommand(cmdCall, os) = executeCommand(ScriptAlone, os)

\* with a script, the command is not run, whatever it is
ScriptGoesFirst ==
    (Returned /\ HasScript) =>
       /\ cmdResult.ran = "script"
       /\ ~cmdResult.detached
       /\ cmdResult.failure \in {"none", "exit", "timeout", "write"}

\* ---------------------------------------------------------------------
\* MAX_AGENT_ITERATIONS (src/telegram.js 40) from the setting in
\* config.json (loadConfig, src/unnamed/part_000 33-43)
\* ---------------------------------------------------------------------
\* numerators run from -MaxBelowZero to MaxNumerator
MaxBelowZero == 4
MaxNumerator == 204
Denominators == {1, 2}

\* a value of the key maxAgentIterations in config.json: absent, a number
\* num/den, a string holding that number, a text that is no number, null,
\* true, false, an object, or a number beyond the doubles (1e999, -1e999)
ConfigValue(kind, num, den) == [kind |-> kind, num |-> num, den |-> den]
ConfigValues ==
    { ConfigValue(k, n, d) :
         k \in {"number", "string"}, n \in (0 - MaxBelowZero)..MaxNumerator,
         d \in Denominators }
    \cup { ConfigValue(k, 0, 1) :
              k \in {"absent", "text", "null", "true", "false", "object",
                     "huge", "hugeNegative"} }

\* a JavaScript number: finite num/den, NaN, Infinity or -Infinity
JsNumber(class, num, den) == [class |-> class, num |-> num, den |-> den]
NaN == JsNumber("nan", 0, 1)
Infinity == JsNumber("inf", 0, 1)
NegativeInfinity == JsNumber("-inf", 0, 1)
Finite(n) == JsNumber("finite", n, 1)

\* { ...DEFAULTS, ...raw }.maxAgentIterations
loadConfig(raw) ==
    IF raw.kind = "absent" THEN ConfigValue("number", DefaultAgentIterations, 1)
    ELSE raw

\* Number(v)
Number(v) ==
    IF v.kind \in {"number", "string"} THEN JsNumber("finite", v.num, v.den)
    ELSE IF v.kind \in {"null", "false"} THEN Finite(0)
    ELSE IF v.kind = "true" THEN Finite(1)
    ELSE IF v.kind = "huge" THEN Infinity
    ELSE IF v.kind = "hugeNegative" THEN NegativeInfinity
    ELSE NaN

\* a rounding to the next integer above
MathCeil(x) ==
    IF x.class = "finite" THEN Finite(-((-x.num) \div x.den)) ELSE x

\* Math.floor(x)
MathFloor(x) ==
    IF x.class = "finite" THEN Finite(x.num \div x.den) ELSE x

\* x || d: NaN and 0 are falsy
OrDefault(x, d) ==
    IF x.class = "nan" \/ (x.class = "finite" /\ x.num = 0) THEN Finite(d) ELSE x

\* Math.min(limit, x) and Math.max(limit, x) for x that is not NaN
MathMin(limit, x) ==
    IF x.class = "inf" THEN Finite(limit)
    ELSE IF x.class = "-inf" THEN x
    ELSE Finite(Min(limit, x.num))
MathMax(limit, x) ==
    IF x.class = "-inf" THEN Finite(limit)
    ELSE IF x.class = "inf" THEN x
    ELSE Finite(Max(limit, x.num))

\* Math.max(1, Math.min(100, Math.floor(Number(v)) || 25))
MaxAgentIterationsOf(v) ==
    MathMax(1, MathMin(AgentIterationsCeiling,
                       OrDefault(MathFloor(Number(v)), DefaultAgentIterations)))

\* the process has started and config.json holds any value for the key
InitCap ==
    /\ OrchestratorUnused /\ SessionsUnused /\ CommandUnused
    /\ CapOthersUnused
    /\ capSetting \in ConfigValues
    /\ capValue = <<>>

\* startTelegramBot reads the configuration and computes line 40
StartTelegramBot ==
    /\ capValue = <<>>
    /\ UNCHANGED <<orchestratorVars, sessionVars, commandVars, capOthers>>
    /\ capValue' = <<MaxAgentIterationsOf(loadConfig(capSetting))>>
    /\ UNCHANGED capSetting

NextCap == StartTelegramBot

SpecCap == InitCap /\ [][NextCap]_vars

TypeOKCap ==
    /\ capSetting \in ConfigValues
    /\ Len(capValue) <= 1

\* ---- C35 ----

\* the setting is a number (or a string holding one) from 1 to 100
SettingWithinRange ==
    /\ capSetting.kind \in {"number", "string"}
    /\ capSetting.den <= capSetting.num
    /\ capSetting.num <= AgentIterationsCeiling * capSetting.den

\* C35: for every configured value of maxAgentIterations (any number, zero,
\* negative, not numeric, missing) the effective iteration cap is an
\* integer from 1 to 100, and it is floor(value) whenever the value is a
\* number from 1 to 100
C35_CapWithinBoundsAndFloor ==
    capValue # <<>> =>
       /\ capValue[1].class = "finite"
       /\ capValue[1].den = 1
       /\ capValue[1].num \in 1..AgentIterationsCeiling
       /\ SettingWithinRange =>
             /\ capValue[1].num * capSetting.den <= capSetting.num
             /\ capSetting.num < (capValue[1].num + 1) * capSetting.den

\* 3/2 gives the cap 1
C35_Witness ==
    /\ capSetting = ConfigValue("number", 3, 2)
    /\ capValue = <<Finite(1)>>

\* what the other kinds of value give
CapOfOtherValues ==
    capValue # <<>> =>
       /\ capSetting.kind \in {"absent", "text", "null", "false", "object"} =>
             capValue[1].num = DefaultAgentIterations
       /\ capSetting.kind = "huge" => capValue[1].num = AgentIterationsCeiling
       /\ capSetting.kind \in {"hugeNegative", "true"} => capValue[1].num = 1
       /\ (capSetting.kind = "number" /\ capSetting.num < 0) => capValue[1].num = 1
       /\ (capSetting.kind = "number" /\ capSetting.num \in 0..(capSetting.den - 1)) =>
             capValue[1].num = DefaultAgentIterations

\* ---------------------------------------------------------------------
\* Conversations whose stored history holds tool rounds and is at the
\* limit: the invocations of handleUserText of SpecSessions, started on
\* histories left by earlier requests
\* ---------------------------------------------------------------------

\* what an earlier request q of chat c with one tool round appended: the
\* user text, the assistant turn with its tool-use request, the user
\* message with the tool result, the final assistant message
OldRequest(c, q) ==
    <<UserText(c, 0 - q)>> \o RoundMessages(c, 0 - q, 1) \o <<FinalMessage(c, 0 - q)>>

RECURSIVE OldRequests(_, _)
OldRequests(c, q) ==
    IF q = 0 THEN <<>> ELSE OldRequests(c, q - 1) \o OldRequest(c, q)

\* the first len messages of those requests; a length that is not a
\* multiple of four is the history a run ended by the browse stop leaves
OldToolHistory(c, len) == SubSeq(OldRequests(c, (len + 3) \div 4), 1, len)

InitTrimmed ==
    /\ \E len \in [ChatIds -> PriorLengths] :
          /\ chatHistoryMap =
                [c \in ChatIds |-> IF len[c] = 0 THEN NoRef ELSE InitialRef(c)]
          /\ arrays = [r \in Refs |->
                          IF \E c \in ChatIds : r = InitialRef(c)
                          THEN OldToolHistory(0 - r[1], len[0 - r[1]])
                          ELSE <<>>]
    /\ handlers = [h \in Handlers |-> IdleHandler]
    /\ HEALER_RAN_THIS_PROCESS = [ran |-> FALSE]
    /\ healerSpawns = 0
    /\ writeOrder = <<>>
    /\ OrchestratorUnused
    /\ CommandUnused
    /\ UnitsUnused

SpecTrimmed == InitTrimmed /\ [][NextSessions]_vars

\* ---- C36 ----

\* m carries tool results: a user message other than the user's text
CarriesToolResults(m) == m.role = "user" /\ m.n > 0
\* a is the assistant turn whose tool-use requests m answers
RequestedBy(a, m) ==
    /\ a.role = "assistant"
    /\ a.chat = m.chat
    /\ a.from = m.from
    /\ a.n = m.n - 1

\* every message of ms that carries tool results follows its assistant turn
ResultsFollowRequests(ms) ==
    \A i \in 1..Len(ms) :
        CarriesToolResults(ms[i]) => (i > 1 /\ RequestedBy(ms[i - 1], ms[i]))

\* the message list of the create call that invocation h awaits
SentBy(h) == arrays[handlers[h].convo]

\* C36: in every message list sent to the reasoning service, every tool
\* result sits in a user message that immediately follows the assistant
\* message with its tool-use request; truncating to the most recent 40
\* messages leaves no tool-result message whose assistant message was dropped
C36_SentResultsFollowRequests ==
    \A h \in Handlers :
        handlers[h].pc = "awaitCreate" => ResultsFollowRequests(SentBy(h))

\* the same stated of the history stored for each chat
StoredResultsFollowRequests ==
    \A c \in ChatIds : ResultsFollowRequests(Stored(c))

\* the same stated of the lists sent while no run has failed
SentResultsFollowRequestsUnlessFailed ==
    (\A g \in Handlers : handlers[g].pc \in {"sending", "done"} => handlers[g].ok)
        => C36_SentResultsFollowRequests

\* ---- C37 ----

\* no two consecutive messages of ms have the same role
RolesAlternate(ms) ==
    \A i \in 1..(Len(ms) - 1) : ms[i].role # ms[i + 1].role

\* ms ends with one user message that follows an assistant message or nothing
EndsWithOneUserMessage(ms) ==
    /\ ms # <<>>
    /\ ms[Len(ms)].role = "user"
    /\ Len(ms) > 1 => ms[Len(ms) - 1].role = "assistant"

\* C37: after any sequence of requests on one conversation (normal
\* completions, endings by the browse stop, failures of the reasoning
\* service) the stored history alternates roles strictly, and the message
\* list sent at the start of the next run ends with exactly one new user
\* message preceded by an assistant message or by nothing
C37_StoredRolesAlternate ==
    /\ RolesAlternate(chatHistory)
    /\ pc = "awaitFirst" => EndsWithOneUserMessage(request.messages)

\* ---- C38 ----

\* the calls of the run so far that step-by-step mode deferred
DeferredCalls == {k \in 1..Len(callLog) : callLog[k].how = "deferred"}

\* ms holds the deferral result of the call with identifier id
CarriesDeferral(ms, id) ==
    \E i \in 1..Len(ms) :
        /\ ms[i].role = "user"
        /\ \E j \in 1..Len(ms[i].content) :
              /\ ms[i].content[j].type = "tool_result"
              /\ ms[i].content[j].tool_use_id = id
              /\ ms[i].content[j].content = DeferredResult

\* the deferral result of call k went to the service in a create call of
\* this run
Resubmitted(k) == CarriesDeferral(request.messages, callLog[k].id)

\* call k belongs to the assistant turn being handled
OfCurrentTurn(k) ==
    \E j \in 1..Len(ToolUseIds(response.content)) :
        ToolUseIds(response.content)[j] = callLog[k].id

\* C38 as stated: every call deferred by step-by-step mode is followed, in
\* the same run, by a resubmission to the reasoning service that carries
\* its deferral result; no run ends with a deferred call whose result was
\* never sent
C38_DeferredAlwaysResubmitted ==
    \A k \in DeferredCalls :
        \/ pc = "tools" /\ OfCurrentTurn(k)
        \/ Resubmitted(k)

\* C38: every call deferred by step-by-step mode is followed, in the same
\* run, by a resubmission that carries its deferral result, unless the
\* browse stop ends the run in the turn of that call: then no resubmission
\* follows and the deferral result is in the history the run returns
C38_DeferredResubmittedUnlessBrowseStop ==
    \A k \in DeferredCalls :
        \/ pc = "tools" /\ OfCurrentTurn(k)
        \/ Resubmitted(k)
        \/ /\ pc = "idle"
           /\ outcome = "browseStop"
           /\ OfCurrentTurn(k)
           /\ ~Resubmitted(k)
           /\ CarriesDeferral(chatHistory, callLog[k].id)

\* a deferral result has gone to the service with the resubmission, and the
\* run goes on
C38_Witness ==
    /\ pc = "awaitNext"
    /\ DeferredCalls # {}
    /\ \A k \in DeferredCalls : Resubmitted(k)
    /\ \E k \in DeferredCalls : OfCurrentTurn(k)

\* ---- C39 ----

\* the run_command call of the orchestrator that carries the command of
\* cmdCall, and its fingerprint
CallOfCommand == [name |-> "execute_command",
                  input |-> [NoInput EXCEPT !.command = cmdCall.command]]
FingerprintOfCall == fingerprintBrowserAction(CallOfCommand)

\* C39: every run_command call that executeCommand handles by spawning the
\* browser directly as a detached process has a fingerprint, so that a
\* second identical call of the run is deduplicated after a successful
\* launch and the browser is not launched twice
C39_DetachedLaunchesHaveFingerprint ==
    (Returned /\ cmdResult.detached) => FingerprintOfCall # NullFp

\* the same for the commands that show an address
LaunchesWithAddressHaveFingerprint ==
    (Returned /\ cmdResult.detached /\ ShowsAddress(cmdCall.command))
        => FingerprintOfCall # NullFp

=============================================================================
